---- MODULE Spec2Model ----
(***************************************************************************)
(* Scoring and risk-classification engine of the CLBH Quick Checkup        *)
(* backend (backend/server.py): catalog tables, calculate_score_and_risks, *)
(* get_risk_key and generate_action_plan, driven by a caller that composes *)
(* a module list and an answer list and then calls the engine.             *)
(*                                                                         *)
(* Representation choices:                                                 *)
(*  - Python floats are kept as exact fractions [num, den]; int() and      *)
(*    round(., 1) are modelled on that fraction together with the IEEE-754 *)
(*    double rounding of  t / m * 100  where it is observable.             *)
(*  - the returned score_percentage (a float with one decimal) is held as  *)
(*    an integer number of tenths of a percent.                            *)
(*  - presentation-only text (question text, option labels) is left out    *)
(*    of QUESTIONS; ids, option values, points and trigger flags are kept. *)
(***************************************************************************)
EXTENDS Integers, Sequences, FiniteSets, Bags, TLC

(***************************************************************************)
(* Bounds of the exploration                                               *)
(***************************************************************************)
\* longest answer list composed from AnswerPool
MaxAnswers == 4
\* longest answer list of the lease questionnaire walk
MaxLongAnswers == 8
\* longest module list of an assessment
MaxModules == 2
\* most documents the assessments and leads collections hold together
MaxDocuments == 3

(***************************************************************************)
(* Catalog data (module-level constants of server.py)                      *)
(***************************************************************************)
QUESTIONS ==
  ("lease" :> <<
      [id |-> "lease_1", module |-> "lease", options |-> <<[value |-> "green", points |-> 3, trigger_flag |-> FALSE], [value |-> "yellow", points |-> 2, trigger_flag |-> FALSE], [value |-> "red", points |-> 1, trigger_flag |-> TRUE]>>],
      [id |-> "lease_2", module |-> "lease", options |-> <<[value |-> "green", points |-> 3, trigger_flag |-> FALSE], [value |-> "yellow", points |-> 2, trigger_flag |-> FALSE], [value |-> "red", points |-> 1, trigger_flag |-> TRUE]>>],
      [id |-> "lease_3", module |-> "lease", options |-> <<[value |-> "green", points |-> 3, trigger_flag |-> FALSE], [value |-> "yellow", points |-> 2, trigger_flag |-> FALSE], [value |-> "red", points |-> 1, trigger_flag |-> TRUE]>>],
      [id |-> "lease_4", module |-> "lease", options |-> <<[value |-> "green", points |-> 3, trigger_flag |-> FALSE], [value |-> "yellow", points |-> 2, trigger_flag |-> FALSE], [value |-> "red", points |-> 1, trigger_flag |-> TRUE]>>],
      [id |-> "lease_5", module |-> "lease", options |-> <<[value |-> "green", points |-> 3, trigger_flag |-> FALSE], [value |-> "yellow", points |-> 2, trigger_flag |-> FALSE], [value |-> "red", points |-> 1, trigger_flag |-> TRUE]>>],
      [id |-> "lease_6", module |-> "lease", options |-> <<[value |-> "green", points |-> 3, trigger_flag |-> FALSE], [value |-> "yellow", points |-> 2, trigger_flag |-> FALSE], [value |-> "red", points |-> 1, trigger_flag |-> TRUE]>>],
      [id |-> "lease_7", module |-> "lease", options |-> <<[value |-> "green", points |-> 3, trigger_flag |-> FALSE], [value |-> "yellow", points |-> 2, trigger_flag |-> FALSE], [value |-> "red", points |-> 1, trigger_flag |-> TRUE]>>],
      [id |-> "lease_8", module |-> "lease", options |-> <<[value |-> "green", points |-> 3, trigger_flag |-> FALSE], [value |-> "yellow", points |-> 2, trigger_flag |-> FALSE], [value |-> "red", points |-> 1, trigger_flag |-> TRUE]>>],
      [id |-> "lease_9", module |-> "lease", options |-> <<[value |-> "green", points |-> 3, trigger_flag |-> FALSE], [value |-> "yellow", points |-> 2, trigger_flag |-> FALSE], [value |-> "red", points |-> 1, trigger_flag |-> TRUE]>>],
      [id |-> "lease_10", module |-> "lease", options |-> <<[value |-> "green", points |-> 3, trigger_flag |-> FALSE], [value |-> "yellow", points |-> 2, trigger_flag |-> FALSE], [value |-> "red", points |-> 1, trigger_flag |-> TRUE]>>],
      [id |-> "lease_11", module |-> "lease", options |-> <<[value |-> "green", points |-> 3, trigger_flag |-> FALSE], [value |-> "yellow", points |-> 2, trigger_flag |-> FALSE], [value |-> "red", points |-> 1, trigger_flag |-> TRUE]>>],
      [id |-> "lease_12", module |-> "lease", options |-> <<[value |-> "green", points |-> 3, trigger_flag |-> FALSE], [value |-> "yellow", points |-> 2, trigger_flag |-> FALSE], [value |-> "yellow2", points |-> 2, trigger_flag |-> FALSE]>>],
      [id |-> "lease_13", module |-> "lease", options |-> <<[value |-> "green", points |-> 3, trigger_flag |-> FALSE], [value |-> "yellow", points |-> 2, trigger_flag |-> FALSE], [value |-> "red", points |-> 1, trigger_flag |-> TRUE]>>],
      [id |-> "lease_14", module |-> "lease", options |-> <<[value |-> "green", points |-> 3, trigger_flag |-> FALSE], [value |-> "yellow", points |-> 2, trigger_flag |-> FALSE], [value |-> "yellow2", points |-> 2, trigger_flag |-> FALSE]>>],
      [id |-> "lease_15", module |-> "lease", options |-> <<[value |-> "green", points |-> 3, trigger_flag |-> FALSE], [value |-> "yellow", points |-> 2, trigger_flag |-> FALSE], [value |-> "yellow2", points |-> 2, trigger_flag |-> FALSE]>>],
      [id |-> "lease_16", module |-> "lease", options |-> <<[value |-> "green", points |-> 3, trigger_flag |-> FALSE], [value |-> "yellow", points |-> 2, trigger_flag |-> FALSE], [value |-> "red", points |-> 1, trigger_flag |-> TRUE]>>],
      [id |-> "lease_17", module |-> "lease", options |-> <<[value |-> "green", points |-> 3, trigger_flag |-> FALSE], [value |-> "yellow", points |-> 2, trigger_flag |-> FALSE], [value |-> "red", points |-> 1, trigger_flag |-> TRUE]>>],
      [id |-> "lease_18", module |-> "lease", options |-> <<[value |-> "green", points |-> 3, trigger_flag |-> FALSE], [value |-> "yellow", points |-> 2, trigger_flag |-> FALSE], [value |-> "yellow2", points |-> 2, trigger_flag |-> FALSE]>>],
      [id |-> "lease_19", module |-> "lease", options |-> <<[value |-> "green", points |-> 3, trigger_flag |-> FALSE], [value |-> "yellow", points |-> 2, trigger_flag |-> FALSE], [value |-> "yellow2", points |-> 2, trigger_flag |-> FALSE]>>],
      [id |-> "lease_20", module |-> "lease", options |-> <<[value |-> "green", points |-> 3, trigger_flag |-> FALSE], [value |-> "yellow", points |-> 2, trigger_flag |-> FALSE], [value |-> "red", points |-> 1, trigger_flag |-> TRUE]>>]
    >>)
  @@ ("ownership" :> <<
      [id |-> "own_1", module |-> "ownership", options |-> <<[value |-> "green", points |-> 3, trigger_flag |-> FALSE], [value |-> "yellow", points |-> 2, trigger_flag |-> FALSE], [value |-> "red", points |-> 1, trigger_flag |-> TRUE]>>],
      [id |-> "own_2", module |-> "ownership", options |-> <<[value |-> "green", points |-> 3, trigger_flag |-> FALSE], [value |-> "yellow", points |-> 2, trigger_flag |-> FALSE], [value |-> "red", points |-> 1, trigger_flag |-> TRUE]>>],
      [id |-> "own_3", module |-> "ownership", options |-> <<[value |-> "green", points |-> 3, trigger_flag |-> FALSE], [value |-> "yellow", points |-> 2, trigger_flag |-> FALSE], [value |-> "red", points |-> 1, trigger_flag |-> TRUE]>>],
      [id |-> "own_4", module |-> "ownership", options |-> <<[value |-> "green", points |-> 3, trigger_flag |-> FALSE], [value |-> "yellow", points |-> 2, trigger_flag |-> FALSE], [value |-> "red", points |-> 1, trigger_flag |-> TRUE]>>],
      [id |-> "own_5", module |-> "ownership", options |-> <<[value |-> "green", points |-> 3, trigger_flag |-> FALSE], [value |-> "yellow", points |-> 2, trigger_flag |-> FALSE], [value |-> "red", points |-> 1, trigger_flag |-> TRUE]>>],
      [id |-> "own_6", module |-> "ownership", options |-> <<[value |-> "green", points |-> 3, trigger_flag |-> FALSE], [value |-> "yellow", points |-> 2, trigger_flag |-> FALSE], [value |-> "red", points |-> 1, trigger_flag |-> TRUE]>>],
      [id |-> "own_7", module |-> "ownership", options |-> <<[value |-> "green", points |-> 3, trigger_flag |-> FALSE], [value |-> "yellow", points |-> 2, trigger_flag |-> FALSE], [value |-> "red", points |-> 1, trigger_flag |-> TRUE]>>],
      [id |-> "own_8", module |-> "ownership", options |-> <<[value |-> "green", points |-> 3, trigger_flag |-> FALSE], [value |-> "yellow", points |-> 2, trigger_flag |-> FALSE], [value |-> "red", points |-> 1, trigger_flag |-> TRUE]>>],
      [id |-> "own_9", module |-> "ownership", options |-> <<[value |-> "green", points |-> 3, trigger_flag |-> FALSE], [value |-> "yellow", points |-> 2, trigger_flag |-> FALSE], [value |-> "red", points |-> 1, trigger_flag |-> TRUE]>>],
      [id |-> "own_10", module |-> "ownership", options |-> <<[value |-> "green", points |-> 3, trigger_flag |-> FALSE], [value |-> "yellow", points |-> 2, trigger_flag |-> FALSE], [value |-> "red", points |-> 1, trigger_flag |-> TRUE]>>],
      [id |-> "own_11", module |-> "ownership", options |-> <<[value |-> "green", points |-> 3, trigger_flag |-> FALSE], [value |-> "yellow", points |-> 2, trigger_flag |-> FALSE], [value |-> "red", points |-> 1, trigger_flag |-> TRUE]>>],
      [id |-> "own_12", module |-> "ownership", options |-> <<[value |-> "green", points |-> 3, trigger_flag |-> FALSE], [value |-> "yellow", points |-> 2, trigger_flag |-> FALSE], [value |-> "red", points |-> 1, trigger_flag |-> TRUE]>>],
      [id |-> "own_13", module |-> "ownership", options |-> <<[value |-> "green", points |-> 3, trigger_flag |-> FALSE], [value |-> "yellow", points |-> 2, trigger_flag |-> FALSE], [value |-> "red", points |-> 1, trigger_flag |-> TRUE]>>],
      [id |-> "own_14", module |-> "ownership", options |-> <<[value |-> "green", points |-> 3, trigger_flag |-> FALSE], [value |-> "yellow", points |-> 2, trigger_flag |-> FALSE], [value |-> "red", points |-> 1, trigger_flag |-> TRUE]>>],
      [id |-> "own_15", module |-> "ownership", options |-> <<[value |-> "green", points |-> 3, trigger_flag |-> FALSE], [value |-> "yellow", points |-> 2, trigger_flag |-> FALSE], [value |-> "yellow2", points |-> 2, trigger_flag |-> FALSE]>>],
      [id |-> "own_16", module |-> "ownership", options |-> <<[value |-> "green", points |-> 3, trigger_flag |-> FALSE], [value |-> "yellow", points |-> 2, trigger_flag |-> FALSE], [value |-> "red", points |-> 1, trigger_flag |-> TRUE]>>],
      [id |-> "own_17", module |-> "ownership", options |-> <<[value |-> "green", points |-> 3, trigger_flag |-> FALSE], [value |-> "yellow", points |-> 2, trigger_flag |-> FALSE], [value |-> "yellow2", points |-> 2, trigger_flag |-> FALSE]>>],
      [id |-> "own_18", module |-> "ownership", options |-> <<[value |-> "green", points |-> 3, trigger_flag |-> FALSE], [value |-> "yellow", points |-> 2, trigger_flag |-> FALSE], [value |-> "yellow2", points |-> 2, trigger_flag |-> FALSE]>>],
      [id |-> "own_19", module |-> "ownership", options |-> <<[value |-> "green", points |-> 3, trigger_flag |-> FALSE], [value |-> "yellow", points |-> 2, trigger_flag |-> FALSE], [value |-> "yellow2", points |-> 2, trigger_flag |-> FALSE]>>],
      [id |-> "own_20", module |-> "ownership", options |-> <<[value |-> "green", points |-> 3, trigger_flag |-> FALSE], [value |-> "yellow", points |-> 2, trigger_flag |-> FALSE], [value |-> "red", points |-> 1, trigger_flag |-> TRUE]>>]
    >>)
  @@ ("acquisition" :> <<
      [id |-> "acq_1", module |-> "acquisition", options |-> <<[value |-> "green", points |-> 3, trigger_flag |-> FALSE], [value |-> "yellow", points |-> 2, trigger_flag |-> FALSE], [value |-> "red", points |-> 1, trigger_flag |-> TRUE]>>],
      [id |-> "acq_2", module |-> "acquisition", options |-> <<[value |-> "green", points |-> 3, trigger_flag |-> FALSE], [value |-> "yellow", points |-> 2, trigger_flag |-> FALSE], [value |-> "red", points |-> 1, trigger_flag |-> TRUE]>>],
      [id |-> "acq_3", module |-> "acquisition", options |-> <<[value |-> "green", points |-> 3, trigger_flag |-> FALSE], [value |-> "yellow", points |-> 2, trigger_flag |-> FALSE], [value |-> "red", points |-> 1, trigger_flag |-> TRUE]>>],
      [id |-> "acq_4", module |-> "acquisition", options |-> <<[value |-> "green", points |-> 3, trigger_flag |-> FALSE], [value |-> "yellow", points |-> 2, trigger_flag |-> FALSE], [value |-> "red", points |-> 1, trigger_flag |-> TRUE]>>],
      [id |-> "acq_5", module |-> "acquisition", options |-> <<[value |-> "green", points |-> 3, trigger_flag |-> FALSE], [value |-> "yellow", points |-> 2, trigger_flag |-> FALSE], [value |-> "red", points |-> 1, trigger_flag |-> TRUE]>>],
      [id |-> "acq_6", module |-> "acquisition", options |-> <<[value |-> "green", points |-> 3, trigger_flag |-> FALSE], [value |-> "yellow", points |-> 2, trigger_flag |-> FALSE], [value |-> "red", points |-> 1, trigger_flag |-> TRUE]>>],
      [id |-> "acq_7", module |-> "acquisition", options |-> <<[value |-> "green", points |-> 3, trigger_flag |-> FALSE], [value |-> "yellow", points |-> 2, trigger_flag |-> FALSE], [value |-> "red", points |-> 1, trigger_flag |-> TRUE]>>],
      [id |-> "acq_8", module |-> "acquisition", options |-> <<[value |-> "green", points |-> 3, trigger_flag |-> FALSE], [value |-> "yellow", points |-> 2, trigger_flag |-> FALSE], [value |-> "red", points |-> 1, trigger_flag |-> TRUE]>>],
      [id |-> "acq_9", module |-> "acquisition", options |-> <<[value |-> "green", points |-> 3, trigger_flag |-> FALSE], [value |-> "yellow", points |-> 2, trigger_flag |-> FALSE], [value |-> "red", points |-> 1, trigger_flag |-> TRUE]>>],
      [id |-> "acq_10", module |-> "acquisition", options |-> <<[value |-> "green", points |-> 3, trigger_flag |-> FALSE], [value |-> "yellow", points |-> 2, trigger_flag |-> FALSE], [value |-> "red", points |-> 1, trigger_flag |-> TRUE]>>],
      [id |-> "acq_11", module |-> "acquisition", options |-> <<[value |-> "green", points |-> 3, trigger_flag |-> FALSE], [value |-> "yellow", points |-> 2, trigger_flag |-> FALSE], [value |-> "red", points |-> 1, trigger_flag |-> TRUE]>>],
      [id |-> "acq_12", module |-> "acquisition", options |-> <<[value |-> "green", points |-> 3, trigger_flag |-> FALSE], [value |-> "yellow", points |-> 2, trigger_flag |-> FALSE], [value |-> "red", points |-> 1, trigger_flag |-> TRUE]>>],
      [id |-> "acq_13", module |-> "acquisition", options |-> <<[value |-> "green", points |-> 3, trigger_flag |-> FALSE], [value |-> "yellow", points |-> 2, trigger_flag |-> FALSE], [value |-> "red", points |-> 1, trigger_flag |-> TRUE]>>],
      [id |-> "acq_14", module |-> "acquisition", options |-> <<[value |-> "green", points |-> 3, trigger_flag |-> FALSE], [value |-> "yellow", points |-> 2, trigger_flag |-> FALSE], [value |-> "red", points |-> 1, trigger_flag |-> TRUE]>>],
      [id |-> "acq_15", module |-> "acquisition", options |-> <<[value |-> "green", points |-> 3, trigger_flag |-> FALSE], [value |-> "yellow", points |-> 2, trigger_flag |-> FALSE], [value |-> "red", points |-> 1, trigger_flag |-> TRUE]>>],
      [id |-> "acq_16", module |-> "acquisition", options |-> <<[value |-> "green", points |-> 3, trigger_flag |-> FALSE], [value |-> "yellow", points |-> 2, trigger_flag |-> FALSE], [value |-> "red", points |-> 1, trigger_flag |-> TRUE]>>],
      [id |-> "acq_17", module |-> "acquisition", options |-> <<[value |-> "green", points |-> 3, trigger_flag |-> FALSE], [value |-> "yellow", points |-> 2, trigger_flag |-> FALSE], [value |-> "red", points |-> 1, trigger_flag |-> TRUE]>>],
      [id |-> "acq_18", module |-> "acquisition", options |-> <<[value |-> "green", points |-> 3, trigger_flag |-> FALSE], [value |-> "yellow", points |-> 2, trigger_flag |-> FALSE], [value |-> "red", points |-> 1, trigger_flag |-> TRUE]>>],
      [id |-> "acq_19", module |-> "acquisition", options |-> <<[value |-> "green", points |-> 3, trigger_flag |-> FALSE], [value |-> "yellow", points |-> 2, trigger_flag |-> FALSE], [value |-> "red", points |-> 1, trigger_flag |-> TRUE]>>],
      [id |-> "acq_20", module |-> "acquisition", options |-> <<[value |-> "green", points |-> 3, trigger_flag |-> FALSE], [value |-> "yellow", points |-> 2, trigger_flag |-> FALSE], [value |-> "red", points |-> 1, trigger_flag |-> TRUE]>>]
    >>)

RISK_DESCRIPTIONS ==
  ("lease" :> (
      "personal_name" :> [title |-> "Lease Under Personal Name", description |-> "Signing a lease personally exposes your personal assets to business liabilities."]
      @@ "personal_guarantee" :> [title |-> "Unlimited Personal Guarantee", description |-> "An unlimited personal guarantee means your personal assets are at risk if the business can't pay rent."]
      @@ "unknown_costs" :> [title |-> "Unknown Cost Exposure", description |-> "Not understanding your total lease costs could lead to unexpected financial burdens."]
      @@ "no_cam_cap" :> [title |-> "No CAM Cap", description |-> "Without a cap on CAM increases, your costs could rise unpredictably each year."]
      @@ "unclear_terms" :> [title |-> "Unclear Lease Terms", description |-> "Not knowing your renewal deadlines or term length could result in losing your space."]
      @@ "no_assignment" :> [title |-> "No Assignment Rights", description |-> "Without assignment or sublease rights, you may be stuck with the lease if you need to exit."]
      @@ "no_early_termination" :> [title |-> "No Early Termination Option", description |-> "Without an early exit clause, you're locked in regardless of business circumstances."]
      @@ "unclear_maintenance" :> [title |-> "Unclear Maintenance Responsibilities", description |-> "Ambiguous repair obligations can lead to disputes and unexpected costs."]
      @@ "no_rent_abatement" :> [title |-> "No Rent Abatement", description |-> "If the property is damaged, you could be paying rent while unable to operate."]
      @@ "verbal_promises" :> [title |-> "Undocumented Promises", description |-> "Verbal promises not in writing are unenforceable and can lead to disputes."]
      @@ "insurance_unknown" :> [title |-> "Unknown Insurance Requirements", description |-> "Not meeting lease insurance requirements could result in default."]
      @@ "ada_unclear" :> [title |-> "ADA Compliance Unclear", description |-> "Unclear ADA responsibilities could result in costly modifications or liability."]
      @@ "use_restrictions" :> [title |-> "Restrictive Use Clauses", description |-> "Use restrictions could limit your ability to adapt your business."]
      @@ "never_reviewed" :> [title |-> "Lease Never Reviewed", description |-> "A lease that's never been professionally reviewed may contain unfavorable terms."]
    ))
  @@ ("acquisition" :> (
      "structure_unclear" :> [title |-> "Unclear Deal Structure", description |-> "Not understanding asset vs. stock purchase affects liability exposure and tax treatment."]
      @@ "no_diligence" :> [title |-> "Inadequate Due Diligence", description |-> "Without proper investigation, you may inherit unknown problems, debts, or liabilities."]
      @@ "unreviewed_contracts" :> [title |-> "Unreviewed Contracts", description |-> "Existing contracts may contain unfavorable terms or change-of-control provisions."]
      @@ "ip_not_documented" :> [title |-> "IP Not Documented", description |-> "Intellectual property that doesn't transfer properly could undermine your purchase."]
      @@ "litigation_unchecked" :> [title |-> "Litigation Not Verified", description |-> "Undiscovered legal issues could become your responsibility post-closing."]
      @@ "employee_issues" :> [title |-> "Employee Matters Unaddressed", description |-> "Unclear employee arrangements can lead to HR problems and compliance issues."]
      @@ "permits_not_verified" :> [title |-> "Permits Not Verified", description |-> "Non-transferable permits could prevent you from operating the business."]
      @@ "no_reps_warranties" :> [title |-> "Missing Representations", description |-> "Without seller guarantees, you have no recourse if problems are discovered later."]
      @@ "no_indemnification" :> [title |-> "No Indemnification", description |-> "Without indemnification, you pay for all of the seller's past problems."]
      @@ "no_escrow" :> [title |-> "No Escrow Holdback", description |-> "Paying full price at closing leaves no protection for undisclosed liabilities."]
      @@ "no_noncompete" :> [title |-> "No Seller Non-Compete", description |-> "The seller could start a competing business and take your customers."]
      @@ "no_transition" :> [title |-> "No Transition Plan", description |-> "Without a formal transition, you risk losing key relationships and knowledge."]
      @@ "no_closing_conditions" :> [title |-> "No Closing Conditions", description |-> "Unclear closing conditions could lead to disputes or failed transactions."]
      @@ "no_tax_review" :> [title |-> "No Tax Professional Review", description |-> "Poor structuring could result in significant unexpected tax bills."]
      @@ "environmental_risk" :> [title |-> "Environmental Liability Risk", description |-> "Uninvestigated environmental issues could result in massive cleanup costs."]
      @@ "financials_unverified" :> [title |-> "Unverified Financials", description |-> "Relying on seller's numbers without verification is extremely risky."]
      @@ "financing_not_secured" :> [title |-> "Financing Not Secured", description |-> "Unsecured financing could derail the deal or force unfavorable terms."]
      @@ "no_integration_plan" :> [title |-> "No Integration Plan", description |-> "Without post-closing planning, the transition could be chaotic and costly."]
    ))
  @@ ("ownership" :> (
      "no_agreement" :> [title |-> "No Written Agreement", description |-> "Without a formal agreement, state default rules apply - which may not match your intentions."]
      @@ "verbal_only" :> [title |-> "Verbal Understanding Only", description |-> "Verbal agreements are difficult to enforce and lead to disputes."]
      @@ "roles_undefined" :> [title |-> "Roles Not Defined", description |-> "Unclear roles and responsibilities lead to conflicts and inefficiency."]
      @@ "no_voting_process" :> [title |-> "No Voting Process", description |-> "Without clear decision-making rules, major decisions become contentious."]
      @@ "no_buyout" :> [title |-> "No Buyout Provision", description |-> "Without exit provisions, partner departures become costly disputes."]
      @@ "no_trigger_events" :> [title |-> "Trigger Events Not Addressed", description |-> "Death, disability, or divorce without provisions can destabilize the business."]
      @@ "no_valuation" :> [title |-> "No Valuation Method", description |-> "Disputes over business value can derail buyouts and create expensive litigation."]
      @@ "no_rofr" :> [title |-> "No Right of First Refusal", description |-> "Owners could sell to outsiders without giving partners a chance to buy."]
      @@ "no_noncompete" :> [title |-> "No Non-Compete Protection", description |-> "Departing owners could compete directly against the business."]
      @@ "death_not_addressed" :> [title |-> "Death Not Addressed", description |-> "A deceased owner's interest going to heirs could disrupt business operations."]
      @@ "disability_not_addressed" :> [title |-> "Disability Not Addressed", description |-> "A disabled owner's situation needs clear provisions for business continuity."]
      @@ "divorce_not_addressed" :> [title |-> "Divorce Not Addressed", description |-> "Without protection, a divorcing spouse could claim business ownership."]
      @@ "no_deadlock_resolution" :> [title |-> "No Deadlock Resolution", description |-> "When owners can't agree, without a process the business can become paralyzed."]
      @@ "no_distribution_policy" :> [title |-> "No Distribution Policy", description |-> "Unclear distribution rules lead to disputes about taking money from the business."]
      @@ "no_indemnification" :> [title |-> "No Owner Indemnification", description |-> "Without protection, one owner's actions could create liability for all."]
      @@ "never_updated" :> [title |-> "Agreement Never Updated", description |-> "An outdated agreement may not reflect current operations or ownership."]
    ))

\* The mappings table of get_risk_key
mappings ==
     "lease_1" :> "personal_name"
  @@ "lease_2" :> "unknown_costs"
  @@ "lease_3" :> "personal_guarantee"
  @@ "lease_4" :> "unknown_costs"
  @@ "lease_5" :> "no_cam_cap"
  @@ "lease_6" :> "unclear_terms"
  @@ "lease_7" :> "no_assignment"
  @@ "lease_8" :> "no_early_termination"
  @@ "lease_9" :> "unclear_maintenance"
  @@ "lease_10" :> "no_rent_abatement"
  @@ "lease_11" :> "verbal_promises"
  @@ "lease_13" :> "insurance_unknown"
  @@ "lease_16" :> "ada_unclear"
  @@ "lease_17" :> "use_restrictions"
  @@ "lease_20" :> "never_reviewed"
  @@ "acq_1" :> "structure_unclear"
  @@ "acq_2" :> "no_diligence"
  @@ "acq_3" :> "unreviewed_contracts"
  @@ "acq_4" :> "ip_not_documented"
  @@ "acq_5" :> "litigation_unchecked"
  @@ "acq_6" :> "employee_issues"
  @@ "acq_7" :> "permits_not_verified"
  @@ "acq_8" :> "no_reps_warranties"
  @@ "acq_9" :> "no_indemnification"
  @@ "acq_10" :> "no_escrow"
  @@ "acq_11" :> "no_noncompete"
  @@ "acq_12" :> "no_transition"
  @@ "acq_13" :> "no_closing_conditions"
  @@ "acq_14" :> "no_tax_review"
  @@ "acq_15" :> "environmental_risk"
  @@ "acq_16" :> "unreviewed_contracts"
  @@ "acq_17" :> "financials_unverified"
  @@ "acq_18" :> "financing_not_secured"
  @@ "acq_19" :> "unreviewed_contracts"
  @@ "acq_20" :> "no_integration_plan"
  @@ "own_1" :> "no_agreement"
  @@ "own_2" :> "verbal_only"
  @@ "own_3" :> "roles_undefined"
  @@ "own_4" :> "no_voting_process"
  @@ "own_5" :> "no_buyout"
  @@ "own_6" :> "no_trigger_events"
  @@ "own_7" :> "no_valuation"
  @@ "own_8" :> "no_rofr"
  @@ "own_9" :> "no_noncompete"
  @@ "own_10" :> "death_not_addressed"
  @@ "own_11" :> "disability_not_addressed"
  @@ "own_12" :> "divorce_not_addressed"
  @@ "own_13" :> "no_deadlock_resolution"
  @@ "own_14" :> "no_distribution_policy"
  @@ "own_15" :> "no_agreement"
  @@ "own_16" :> "no_indemnification"
  @@ "own_20" :> "never_updated"

\* The None returned by dict.get for a missing key
None == "None"

\* The keys of QUESTIONS
Modules == DOMAIN QUESTIONS

\* The question ids of one catalog module
CatalogIds(module) == {QUESTIONS[module][i].id : i \in 1..Len(QUESTIONS[module])}

\* A question id unknown to the catalog and to get_risk_key
UnknownQuestionId == "bogus_1"

(***************************************************************************)
(* Python built-ins used by the engine                                     *)
(***************************************************************************)
\* sum(a.points for a in answers)
RECURSIVE SumPoints(_)
SumPoints(answers) ==
  IF answers = <<>> THEN 0
  ELSE Head(answers).points + SumPoints(Tail(answers))

\* sorted(answers, key=lambda x: x.points): stable, ascending; one insertion
\* step puts x behind every element whose key is not larger
InsertByPoints(sorted, x) ==
  LET k == Cardinality({i \in 1..Len(sorted) : sorted[i].points <= x.points})
  IN  SubSeq(sorted, 1, k) \o <<x>> \o SubSeq(sorted, k + 1, Len(sorted))

RECURSIVE sorted(_)
sorted(answers) ==
  IF answers = <<>> THEN <<>>
  ELSE InsertByPoints(sorted(SubSeq(answers, 1, Len(answers) - 1)),
                      answers[Len(answers)])

\* seq[:n]
Slice(seq, n) == SubSeq(seq, 1, IF Len(seq) < n THEN Len(seq) ELSE n)

\* question_id.split("_")[0] on the question ids of the model: every id of
\* the catalog starts with "lease_", "acq_" or "own_" according to its module
SplitFirst(question_id) ==
  CASE question_id \in CatalogIds("lease")       -> "lease"
    [] question_id \in CatalogIds("acquisition") -> "acq"
    [] question_id \in CatalogIds("ownership")   -> "own"
    [] question_id = UnknownQuestionId           -> "bogus"

\* Integer percentages x for which the double computation (x/100)*100 yields
\* the double just below x (e.g. 1.15*100 = 114.99999999999999), so that
\* int() returns x-1; listed for 0 < x <= 1000, the same holds for -x
FloatShort ==
    {29, 57, 58, 113, 114, 115, 116, 201, 203, 205, 207, 226, 228, 230,
     232, 251, 253, 255, 402, 406, 410, 414, 427, 431, 435, 439, 452, 456,
     460, 464, 477, 481, 485, 489, 502, 506, 510, 803, 804, 812, 820, 828,
     829, 837, 845, 853, 854, 862, 870, 878, 879, 887, 895, 903, 904, 912,
     920, 928, 929, 937, 945, 953, 954, 962, 970, 978, 979, 987, 995}

Abs(n) == IF n < 0 THEN -n ELSE n

\* int(x) for the float x = num/den (den > 0): truncation towards zero of the
\* double, which lies just below an exact integer for the FloatShort values
int(x) ==
  LET q == Abs(x.num) \div x.den
      exact == (Abs(x.num) % x.den = 0)
      t == IF exact /\ q \in FloatShort THEN q - 1 ELSE q
  IN  IF x.num < 0 THEN -t ELSE t

\* round(x, 1) for the float x = num/den (den > 0), in tenths: nearest tenth,
\* an exact tie going to the even tenth (no tie arises for den in
\* {60, 120, 180})
round1(x) ==
  LET n10 == Abs(x.num) * 10
      q == n10 \div x.den
      r2 == 2 * (n10 % x.den)
      t == IF r2 > x.den \/ (r2 = x.den /\ q % 2 = 1) THEN q + 1 ELSE q
  IN  IF x.num < 0 THEN -t ELSE t

min(a, b) == IF a <= b THEN a ELSE b
max(a, b) == IF a >= b THEN a ELSE b

(***************************************************************************)
(* get_risk_key                                                            *)
(***************************************************************************)
\* mappings.get(question_id)
get_risk_key(question_id) ==
  IF question_id \in DOMAIN mappings THEN mappings[question_id] ELSE None

(***************************************************************************)
(* generate_action_plan                                                    *)
(***************************************************************************)
\* One pass of the first loop: an "Address" item for a high-severity risk.
\* st = [action_plan, priority] are the two locals of generate_action_plan.
HighItem(st, risk) ==
  IF risk.severity = "high"
  THEN [action_plan |-> Append(st.action_plan,
                          [priority    |-> st.priority,
                           action      |-> "Address: " \o risk.title,
                           description |-> risk.description,
                           urgency     |-> "high"]),
        priority |-> st.priority + 1]
  ELSE st

\* Variant of MediumItem that does not advance the priority counter
MediumItemSamePriority(st, risk) ==
  IF risk.severity = "medium" /\ st.priority <= 5
  THEN [action_plan |-> Append(st.action_plan,
                          [priority    |-> st.priority,
                           action      |-> "Review: " \o risk.title,
                           description |-> risk.description,
                           urgency     |-> "medium"]),
        priority |-> st.priority]
  ELSE st

\* One pass of the second loop: a "Review" item for a medium-severity risk
\* while priority <= 5
MediumItem(st, risk) ==
  IF risk.severity = "medium" /\ st.priority <= 5
  THEN [action_plan |-> Append(st.action_plan,
                          [priority    |-> st.priority,
                           action      |-> "Review: " \o risk.title,
                           description |-> risk.description,
                           urgency     |-> "medium"]),
        priority |-> st.priority + 1]
  ELSE st

RECURSIVE HighLoop(_, _)
HighLoop(st, risks) ==
  IF risks = <<>> THEN st
  ELSE HighLoop(HighItem(st, Head(risks)), Tail(risks))

RECURSIVE MediumLoop(_, _)
MediumLoop(st, risks) ==
  IF risks = <<>> THEN st
  ELSE MediumLoop(MediumItem(st, Head(risks)), Tail(risks))

\* The trailing review call for yellow/red
ReviewCall(st, risk_level) ==
  IF risk_level \in {"yellow", "red"}
  THEN Append(st.action_plan,
         [priority    |-> st.priority,
          action      |-> "Schedule a CLBH Review Call",
          description |-> "A 30-minute call to discuss your specific situation and create a protection plan.",
          urgency     |-> IF risk_level = "red" THEN "high" ELSE "medium"])
  ELSE st.action_plan

generate_action_plan(top_risks, risk_level, modules) ==
  LET st0 == [action_plan |-> <<>>, priority |-> 1]
      st1 == HighLoop(st0, top_risks)
      st2 == MediumLoop(st1, top_risks)
  IN  ReviewCall(st2, risk_level)

(***************************************************************************)
(* calculate_score_and_risks                                               *)
(***************************************************************************)
\* Variant of total_score that skips answers to unknown questions
total_score_known(answers) ==
  SumPoints(SelectSeq(answers, LAMBDA a : a.question_id # UnknownQuestionId))

total_score(answers) == SumPoints(answers)

\* Variant of max_score that counts 20 per module (questions, not points)
max_score_per_question(modules) == Len(modules) * 20

\* Variant of max_score for a catalog of 24 questions in all
max_score_24_questions(modules) == 24 * 3

\* len(modules) * 60
max_score(modules) == Len(modules) * 60

\* Variant of trigger_flags that keeps a flagged question id only once
RECURSIVE trigger_flags_dedup(_)
trigger_flags_dedup(answers) ==
  IF answers = <<>> THEN <<>>
  ELSE LET front == SubSeq(answers, 1, Len(answers) - 1)
           last  == answers[Len(answers)]
           seen  == {front[i].question_id :
                       i \in {j \in 1..Len(front) : front[j].trigger_flag}}
       IN  trigger_flags_dedup(front) \o
             (IF last.trigger_flag /\ last.question_id \notin seen
              THEN <<last.question_id>> ELSE <<>>)

\* Question ids of the flagged answers, in submission order
RECURSIVE trigger_flags(_)
trigger_flags(answers) ==
  IF answers = <<>> THEN <<>>
  ELSE (IF Head(answers).trigger_flag THEN <<Head(answers).question_id>>
        ELSE <<>>) \o trigger_flags(Tail(answers))

\* (total_score / max_score * 100) if max_score > 0 else 0, as a fraction
score_percentage(total, maxscore) ==
  IF maxscore > 0 THEN [num |-> total * 100, den |-> maxscore]
  ELSE [num |-> 0, den |-> 1]

\* Variant of risk_level_by_score that applies the thresholds to the total
\* instead of the average per module
risk_level_by_total(total, modules) ==
  IF total >= 50 THEN "green"
  ELSE IF total >= 35 THEN "yellow"
  ELSE "red"

\* Variant of risk_level_by_score with the opposite point polarity (high
\* average is bad)
risk_level_by_score_inverted(total, modules) ==
  LET n == Len(modules)
      atleast(c) == IF n > 0 THEN total >= c * n ELSE 0 >= c
  IN  IF atleast(50) THEN "red"
      ELSE IF atleast(35) THEN "yellow"
      ELSE "green"

\* The tier of avg_score_per_module = total / len(modules) if modules else 0.
\* total/n >= c is decided as total >= c*n: the double division is correctly
\* rounded and 50 and 35 are doubles, so the comparisons agree.
risk_level_by_score(total, modules) ==
  LET n == Len(modules)
      atleast(c) == IF n > 0 THEN total >= c * n ELSE 0 >= c
  IN  IF atleast(50) THEN "green"
      ELSE IF atleast(35) THEN "yellow"
      ELSE "red"

\* Variant of risk_level_override whose second test is an elif of the first
risk_level_override_elif(risk_level, flags) ==
  IF Len(flags) >= 3 /\ risk_level = "green" THEN "yellow"
  ELSE IF Len(flags) >= 5 THEN "red"
  ELSE risk_level

\* Override to yellow/red by the number of trigger flags
risk_level_override(risk_level, flags) ==
  LET r1 == IF Len(flags) >= 3 /\ risk_level = "green" THEN "yellow"
            ELSE risk_level
  IN  IF Len(flags) >= 5 THEN "red" ELSE r1

risk_level(answers, modules) ==
  risk_level_override(risk_level_by_score(total_score(answers), modules),
                      trigger_flags(answers))

\* Variant of module_of that keeps the bare prefix of the id
module_of_prefix(question_id) == SplitFirst(question_id)

\* The module a question id is attributed to
module_of(question_id) ==
  LET module == SplitFirst(question_id)
  IN  IF module = "acq" THEN "acquisition"
      ELSE IF module = "own" THEN "ownership"
      ELSE module

\* RISK_DESCRIPTIONS.get(module, {})
risk_descriptions_of(module) ==
  IF module \in DOMAIN RISK_DESCRIPTIONS THEN RISK_DESCRIPTIONS[module]
  ELSE [k \in {} |-> None]

\* Variant of RiskEntry that reports an unresolved question under a generic
\* entry instead of skipping it
RiskEntryGeneric(answer) ==
  IF answer.points <= 2
  THEN LET module   == module_of(answer.question_id)
           risk_key == get_risk_key(answer.question_id)
       IN  IF risk_key # None /\ risk_key \in DOMAIN risk_descriptions_of(module)
           THEN <<[title       |-> RISK_DESCRIPTIONS[module][risk_key].title,
                   description |-> RISK_DESCRIPTIONS[module][risk_key].description,
                   severity    |-> IF answer.points = 1 THEN "high" ELSE "medium",
                   module      |-> module]>>
           ELSE <<[title       |-> "Unclassified Risk",
                   description |-> "Unclassified Risk",
                   severity    |-> IF answer.points = 1 THEN "high" ELSE "medium",
                   module      |-> module]>>
  ELSE <<>>

\* The body of the top-risks loop for one answer: the entry it appends, if any
RiskEntry(answer) ==
  IF answer.points <= 2
  THEN LET module   == module_of(answer.question_id)
           risk_key == get_risk_key(answer.question_id)
       IN  IF risk_key # None /\ risk_key \in DOMAIN risk_descriptions_of(module)
           THEN <<[title       |-> RISK_DESCRIPTIONS[module][risk_key].title,
                   description |-> RISK_DESCRIPTIONS[module][risk_key].description,
                   severity    |-> IF answer.points = 1 THEN "high" ELSE "medium",
                   module      |-> module]>>
           ELSE <<>>
  ELSE <<>>

RECURSIVE RiskLoop(_)
RiskLoop(answers) ==
  IF answers = <<>> THEN <<>>
  ELSE RiskEntry(Head(answers)) \o RiskLoop(Tail(answers))

\* Variant of top_risks that walks all sorted answers
top_risks_unsliced(answers) == RiskLoop(sorted(answers))

\* for answer in sorted_answers[:7]
top_risks(answers) == RiskLoop(Slice(sorted(answers), 7))

\* Variant of confidence_level with a penalty of 10 per flag
confidence_level_penalty10(percentage, flags) ==
  min(100, max(10, int(percentage) - Len(flags) * 10))

\* min(100, max(10, int(score_percentage) - len(trigger_flags) * 5))
confidence_level(percentage, flags) ==
  min(100, max(10, int(percentage) - Len(flags) * 5))

calculate_score_and_risks(answers, modules) ==
  LET total == total_score(answers)
      maxs  == max_score(modules)
      flags == trigger_flags(answers)
      pct   == score_percentage(total, maxs)
      level == risk_level(answers, modules)
      risks == top_risks(answers)
  IN  [total_score        |-> total,
       max_possible_score |-> maxs,
       score_percentage   |-> round1(pct),
       risk_level         |-> level,
       trigger_flags      |-> flags,
       top_risks          |-> risks,
       action_plan        |-> generate_action_plan(risks, level, modules),
       confidence_level   |-> confidence_level(pct, flags)]

\* Variant of answers_after_call for an in-place answers.sort(key=...)
answers_sorted_in_place(answers) == sorted(answers)

\* What a call leaves in the caller's answer list: sorted() builds a new list
answers_after_call(answers) == answers

(***************************************************************************)
(* The caller: composes the request and calls the engine                   *)
(***************************************************************************)
\* AssessmentAnswer values the caller submits.  Points and flags are taken
\* as submitted, so the pool mixes catalog options with values that are not
\* in the catalog (as the API test does).
RedLease1    == [question_id |-> "lease_1", answer_value |-> "red",
                 points |-> 1, trigger_flag |-> TRUE]
YellowLease2 == [question_id |-> "lease_2", answer_value |-> "yellow",
                 points |-> 2, trigger_flag |-> FALSE]
MinimalAcq1  == [question_id |-> "acq_1", answer_value |-> "minimal",
                 points |-> 15, trigger_flag |-> TRUE]
BigUnknown   == [question_id |-> UnknownQuestionId, answer_value |-> "other",
                 points |-> 30, trigger_flag |-> FALSE]
NegLease3    == [question_id |-> "lease_3", answer_value |-> "none",
                 points |-> -5, trigger_flag |-> FALSE]

AnswerPool == {RedLease1, YellowLease2, MinimalAcq1, BigUnknown, NegLease3}

\* The AssessmentAnswer a client builds from option o of catalog question q
AnswerOf(q, o) ==
  [question_id |-> q.id, answer_value |-> o.value,
   points |-> o.points, trigger_flag |-> o.trigger_flag]

\* Answers to the i-th lease question when the respondent walks the lease
\* questionnaire in catalog order: its options worth at most 2 points, or a
\* submitted value of 30 points that is no option of the catalog
LongChoices(i) ==
  LET q == QUESTIONS["lease"][i]
  IN  {AnswerOf(q, q.options[k]) :
         k \in {j \in 1..Len(q.options) : q.options[j].points <= 2}}
      \cup {[question_id |-> q.id, answer_value |-> "other",
              points |-> 30, trigger_flag |-> FALSE]}

\* Module names the caller puts in AssessmentCreate.modules
ModuleNames == {"lease", "acquisition"}

\* The value of `result` before the engine has returned for the current input
NoResult == [returned |-> FALSE]
Returned(r) == [returned |-> TRUE, value |-> r]

\* HTTP clients; each has at most one request in flight
Clients == {"c1", "c2"}

\* No response is sent
NoResponse == [op |-> "none"]

VARIABLES answers, modules, result
\* db: the module-level Mongo handle; assessments, leads: the two
\* collections; requests: the bag of handlers suspended at an await;
\* response: the HTTP response sent by the last step
VARIABLES db, assessments, leads, requests, response
store == <<db, assessments, leads, requests, response>>
vars == <<answers, modules, result, db, assessments, leads, requests, response>>

\* The server as imported, before startup: no handle, nothing stored
StoreDown ==
  /\ db = None
  /\ assessments = [id \in {} |-> None]
  /\ leads = EmptyBag
  /\ requests = EmptyBag
  /\ response = NoResponse

Init ==
  /\ answers = <<>>
  /\ modules = <<>>
  /\ result = NoResult
  /\ StoreDown

\* The caller adds a module to the module list
SelectModule(m) ==
  /\ Len(modules) < MaxModules
  /\ modules' = Append(modules, m)
  /\ result' = NoResult
  /\ UNCHANGED answers
  /\ UNCHANGED store

\* The caller adds an answer to the answer list
AddAnswer(a) ==
  /\ Len(answers) < MaxAnswers
  /\ answers' = Append(answers, a)
  /\ result' = NoResult
  /\ UNCHANGED modules
  /\ UNCHANGED store

\* The caller adds an answer to the next lease question
AddLongAnswer ==
  /\ Len(answers) < MaxLongAnswers
  /\ \E a \in LongChoices(Len(answers) + 1) : answers' = Append(answers, a)
  /\ result' = NoResult
  /\ UNCHANGED modules
  /\ UNCHANGED store

\* A call results = calculate_score_and_risks(answers, modules)
Score ==
  /\ result' = Returned(calculate_score_and_risks(answers, modules))
  /\ answers' = answers_after_call(answers)
  /\ UNCHANGED modules
  /\ UNCHANGED store

Next ==
  \/ \E m \in ModuleNames : SelectModule(m)
  \/ \E a \in AnswerPool : AddAnswer(a)
  \/ Score

Spec == Init /\ [][Next]_vars

\* An assessment of the lease module alone, before its questionnaire is walked
InitLong ==
  /\ answers = <<>>
  /\ modules = <<"lease">>
  /\ result = NoResult
  /\ StoreDown

NextLong ==
  \/ AddLongAnswer
  \/ Score

SpecLong == InitLong /\ [][NextLong]_vars

\* Answers a client may submit that the catalog does not offer: an unknown
\* question with 1 point and the flag set, a catalog question with a negative
\* or an oversized number of points; and one catalog option
LowUnknown == [question_id |-> UnknownQuestionId, answer_value |-> "red",
               points |-> 1, trigger_flag |-> TRUE]

UnprocessablePool == {LowUnknown, NegLease3, MinimalAcq1, YellowLease2}

\* The caller adds an answer the catalog may not offer
AddUnprocessableAnswer ==
  /\ Len(answers) < MaxAnswers
  /\ \E a \in UnprocessablePool : answers' = Append(answers, a)
  /\ result' = NoResult
  /\ UNCHANGED modules
  /\ UNCHANGED store

NextUnprocessable ==
  \/ \E m \in ModuleNames : SelectModule(m)
  \/ AddUnprocessableAnswer
  \/ Score

SpecUnprocessable == Init /\ [][NextUnprocessable]_vars

\* Lists of one or two different modules a client can create an assessment
\* with
DistinctModuleLists ==
  {<<m>> : m \in Modules}
    \cup {l \in {<<m, n>> : m \in Modules, n \in Modules} : l[1] # l[2]}

\* The questions the client is asked: those of the chosen modules, in order
RECURSIVE QuestionsOf(_)
QuestionsOf(mods) ==
  IF mods = <<>> THEN <<>> ELSE QUESTIONS[Head(mods)] \o QuestionsOf(Tail(mods))

\* The option of question q that is worth most
BestOption(q) ==
  CHOOSE o \in {q.options[k] : k \in 1..Len(q.options)} :
    \A k \in 1..Len(q.options) : q.options[k].points <= o.points

\* A client about to walk the questions of the modules it chose
InitBest ==
  /\ answers = <<>>
  /\ modules \in DistinctModuleLists
  /\ result = NoResult
  /\ StoreDown

\* The client answers the next question with its best option
AnswerBest ==
  /\ Len(answers) < Len(QuestionsOf(modules))
  /\ LET q == QuestionsOf(modules)[Len(answers) + 1]
     IN  answers' = Append(answers, AnswerOf(q, BestOption(q)))
  /\ result' = NoResult
  /\ UNCHANGED modules
  /\ UNCHANGED store

NextBest ==
  \/ AnswerBest
  \/ Score

SpecBest == InitBest /\ [][NextBest]_vars

\* The number of catalog answers a client adds to seven answers already given
MaxCatalogAnswers == 1

\* Every answer a client can build from an option of a catalog question
CatalogAnswers ==
  UNION {UNION {{AnswerOf(QUESTIONS[m][i], QUESTIONS[m][i].options[k]) :
                   k \in 1..Len(QUESTIONS[m][i].options)} :
                i \in 1..Len(QUESTIONS[m])} :
         m \in Modules}

WorstOption(q) ==
  CHOOSE o \in {q.options[k] : k \in 1..Len(q.options)} :
    \A k \in 1..Len(q.options) : o.points <= q.options[k].points

\* The first seven lease questions answered with their worst options, and
\* with their best
WorstSeven == [i \in 1..7 |-> AnswerOf(QUESTIONS["lease"][i], WorstOption(QUESTIONS["lease"][i]))]
BestSeven  == [i \in 1..7 |-> AnswerOf(QUESTIONS["lease"][i], BestOption(QUESTIONS["lease"][i]))]

\* An assessment of all three modules with seven answers given
InitCatalog ==
  /\ answers \in {WorstSeven, BestSeven}
  /\ modules = <<"lease", "acquisition", "ownership">>
  /\ result = NoResult
  /\ StoreDown

AddCatalogAnswer ==
  /\ Len(answers) < 7 + MaxCatalogAnswers
  /\ \E a \in CatalogAnswers : answers' = Append(answers, a)
  /\ result' = NoResult
  /\ UNCHANGED modules
  /\ UNCHANGED store

NextCatalog ==
  \/ AddCatalogAnswer
  \/ Score

SpecCatalog == InitCatalog /\ [][NextCatalog]_vars

(***************************************************************************)
(* The HTTP handlers and the two Mongo collections                         *)
(*  - a handler is split at its awaits: each action is one database        *)
(*    operation together with the handler code that runs up to it          *)
(*  - uuid4 values are names taken from a list in order of issue           *)
(*  - timestamps, the id and the contact fields of a lead, which no        *)
(*    handler reads, are left out of the documents; the leads collection   *)
(*    is the bag of the remaining fields of its documents                  *)
(*  - response is the HTTP response sent by the last step, NoResponse when *)
(*    that step left its handler suspended at an await                     *)
(***************************************************************************)
\* str(uuid.uuid4()) for the n-th assessment created
Uuids == <<"uuid-1", "uuid-2", "uuid-3", "uuid-4">>
uuid4(issued) == Uuids[issued + 1]

\* An assessment id that no create_assessment ever issued
UnknownAssessmentId == "uuid-0"

\* Ids a client may send: those of the first two assessments created, and
\* one that is never issued
AssessmentIds == {uuid4(0), uuid4(1), UnknownAssessmentId}

\* Module lists a client sends in AssessmentCreate
ModuleLists == {<<"lease">>}

\* Answer lists a client sends in AssessmentSubmit
SubmitLists == {<<RedLease1, YellowLease2>>, <<MinimalAcq1, BigUnknown>>}

\* A module name that is no key of QUESTIONS
UnknownModule == "franchise"

\* Module names a client asks the questions of
CatalogRequests == ModuleNames \cup {UnknownModule}

\* raise HTTPException(status_code=404, detail=f"Module '{module}' not found")
ModuleNotFound(module) ==
  [op |-> "get_questions", status_code |-> 404,
   detail |-> "Module '" \o module \o "' not found"]

\* Variant of ServiceUnavailable that reports the missing handle as 404
ServiceUnavailable_not_found(op) ==
  [op |-> op, status_code |-> 404, detail |-> "Assessment not found"]

\* require_db() raising HTTPException(503)
ServiceUnavailable(op) ==
  [op |-> op, status_code |-> 503,
   detail |-> "Database is not configured (missing MONGO_URL/DB_NAME)."]

\* raise HTTPException(status_code=404, detail="Assessment not found")
NotFound(op) ==
  [op |-> op, status_code |-> 404, detail |-> "Assessment not found"]

\* A returned body
Ok(op, body) == [op |-> op, status_code |-> 200, body |-> body]

\* Variant of AssessmentResult that is born completed
AssessmentResult_completed(id, mods) ==
  [id                 |-> id,
   modules            |-> mods,
   answers            |-> <<>>,
   total_score        |-> 0,
   max_possible_score |-> 0,
   score_percentage   |-> 0,
   risk_level         |-> "green",
   trigger_flags      |-> <<>>,
   top_risks          |-> <<>>,
   action_plan        |-> <<>>,
   confidence_level   |-> 50,
   completed          |-> TRUE]

\* AssessmentResult(modules=...) with the defaults of its fields
AssessmentResult(id, mods) ==
  [id                 |-> id,
   modules            |-> mods,
   answers            |-> <<>>,
   total_score        |-> 0,
   max_possible_score |-> 0,
   score_percentage   |-> 0,
   risk_level         |-> "green",
   trigger_flags      |-> <<>>,
   top_risks          |-> <<>>,
   action_plan        |-> <<>>,
   confidence_level   |-> 50,
   completed          |-> FALSE]

\* Variant of update_data that appends the submitted answers to the stored ones
update_data_append(assessment, submitted, results) ==
  [answers            |-> assessment.answers \o submitted,
   total_score        |-> results.total_score,
   max_possible_score |-> results.max_possible_score,
   score_percentage   |-> results.score_percentage,
   risk_level         |-> results.risk_level,
   trigger_flags      |-> results.trigger_flags,
   top_risks          |-> results.top_risks,
   action_plan        |-> results.action_plan,
   confidence_level   |-> results.confidence_level,
   completed          |-> TRUE]

\* Variant of update_data that leaves the stored risk level as it is
update_data_keep_level(assessment, submitted, results) ==
  [answers            |-> submitted,
   total_score        |-> results.total_score,
   max_possible_score |-> results.max_possible_score,
   score_percentage   |-> results.score_percentage,
   risk_level         |-> assessment.risk_level,
   trigger_flags      |-> results.trigger_flags,
   top_risks          |-> results.top_risks,
   action_plan        |-> results.action_plan,
   confidence_level   |-> results.confidence_level,
   completed          |-> TRUE]

\* update_data of submit_assessment (a.model_dump() keeps the four fields of
\* an answer)
update_data(assessment, submitted, results) ==
  [answers            |-> submitted,
   total_score        |-> results.total_score,
   max_possible_score |-> results.max_possible_score,
   score_percentage   |-> results.score_percentage,
   risk_level         |-> results.risk_level,
   trigger_flags      |-> results.trigger_flags,
   top_risks          |-> results.top_risks,
   action_plan        |-> results.action_plan,
   confidence_level   |-> results.confidence_level,
   completed          |-> TRUE]

\* Variant of update_one that leaves a completed document as it is (the
\* first write wins)
update_one_first_write(collection, id, fields) ==
  IF id \in DOMAIN collection /\ ~collection[id].completed
  THEN [collection EXCEPT ![id] =
          [f \in DOMAIN collection[id] \cup DOMAIN fields |->
             IF f \in DOMAIN fields THEN fields[f] ELSE collection[id][f]]]
  ELSE collection

\* collection.update_one({"id": id}, {"$set": fields}): the first document
\* with that id gets the fields; no document, no change
update_one(collection, id, fields) ==
  IF id \in DOMAIN collection
  THEN [collection EXCEPT ![id] =
          [f \in DOMAIN collection[id] \cup DOMAIN fields |->
             IF f \in DOMAIN fields THEN fields[f] ELSE collection[id][f]]]
  ELSE collection

\* Variant of insert_lead that replaces the lead of the same assessment
insert_lead_upsert(collection, doc) ==
  LET kept == {l \in BagToSet(collection) : l.assessment_id # doc.assessment_id}
  IN  [l \in kept |-> collection[l]] (+) SetToBag({doc})

\* db.leads.insert_one(doc)
insert_lead(collection, doc) == collection (+) SetToBag({doc})

\* db.assessments.insert_one(doc)
insert_one(collection, doc) ==
  [id \in DOMAIN collection \cup {doc.id} |->
     IF id = doc.id THEN doc ELSE collection[id]]

\* Decimal text of a float with one decimal held in tenths, as str() gives it
FloatText(tenths) ==
  (IF tenths < 0 THEN "-" ELSE "") \o ToString(Abs(tenths) \div 10)
    \o "." \o ToString(Abs(tenths) % 10)

\* f"{assessment.get('score_percentage', 0)}%": the stored number is the int 0
\* when the assessment was scored with max_score = 0, a float otherwise
format_score(assessment) ==
  IF assessment.completed /\ assessment.max_possible_score = 0
  THEN "0%"
  ELSE FloatText(assessment.score_percentage) \o "%"

\* [r.get('title', '') for r in top_risks]
RECURSIVE titles(_)
titles(risks) ==
  IF risks = <<>> THEN <<>>
  ELSE <<risks[1].title>> \o titles(Tail(risks))

\* The None that find_one returns when no document matches
NoDocument == [id |-> None]

\* Lead(**data.model_dump()) with the defaults of its fields
Lead(data) ==
  [assessment_id |-> data.assessment_id,
   score         |-> None,
   risk_level    |-> None,
   top_risks     |-> <<>>]

\* Variant of lead_snapshot that leaves the risk level of the lead unset
lead_snapshot_no_level(lead, assessment) ==
  IF assessment # NoDocument
  THEN [lead EXCEPT !.score      = format_score(assessment),
                    !.top_risks  = titles(assessment.top_risks)]
  ELSE lead

\* Variant of lead_snapshot that takes the risk level an assessment is
\* created with instead of the one read
lead_snapshot_created_level(lead, assessment) ==
  IF assessment # NoDocument
  THEN [lead EXCEPT !.score      = format_score(assessment),
                    !.risk_level = AssessmentResult(assessment.id, assessment.modules).risk_level,
                    !.top_risks  = titles(assessment.top_risks)]
  ELSE lead

\* The body of `if assessment:` in create_lead
lead_snapshot(lead, assessment) ==
  IF assessment # NoDocument
  THEN [lead EXCEPT !.score      = format_score(assessment),
                    !.risk_level = assessment.risk_level,
                    !.top_risks  = titles(assessment.top_risks)]
  ELSE lead

\* Variant of find_one that queries without the id filter
find_one_unfiltered(collection, id) ==
  IF DOMAIN collection # {}
  THEN collection[CHOOSE first \in DOMAIN collection : TRUE]
  ELSE NoDocument

\* collection.find_one({"id": id}): the document, or NoDocument for None
find_one(collection, id) ==
  IF id \in DOMAIN collection THEN collection[id] ELSE NoDocument

\* The suspended handlers of operation op
InFlight(op) == {r \in BagToSet(requests) : r.op = op}

\* Documents stored, or about to be stored by a suspended create_lead
Documents ==
  Cardinality(DOMAIN assessments) + BagCardinality(leads)
    + BagCardinality([r \in InFlight("create_lead") |-> requests[r]])

\* Some client has no request in flight
SomeClientIdle == BagCardinality(requests) < Cardinality(Clients)

\* The handler r suspends at an await
suspend(r) == requests (+) SetToBag({r})

\* The suspended handler r resumes
resume(r) == requests (-) SetToBag({r})

\* The server after startup_db_client: the handle is set when MONGO_URL and
\* DB_NAME are, and stays None otherwise
InitStore ==
  /\ answers = <<>>
  /\ modules = <<>>
  /\ result = NoResult
  /\ db \in {None, "db"}
  /\ assessments = [id \in {} |-> None]
  /\ leads = EmptyBag
  /\ requests = EmptyBag
  /\ response = NoResponse

\* A handler stopped by require_db()
Unavailable(op) ==
  /\ db = None
  /\ response' = ServiceUnavailable(op)
  /\ UNCHANGED <<db, assessments, leads, requests>>

\* GET /questions/{module}: needs no database
get_questions(module) ==
  /\ UNCHANGED <<answers, modules, result>>
  /\ response' = IF module \notin DOMAIN QUESTIONS
                 THEN ModuleNotFound(module)
                 ELSE Ok("get_questions",
                         [module |-> module, questions |-> QUESTIONS[module]])
  /\ UNCHANGED <<db, assessments, leads, requests>>

\* POST /assessments
create_assessment(mods) ==
  /\ UNCHANGED <<answers, modules, result>>
  /\ \/ Unavailable("create_assessment")
     \/ /\ db # None
        /\ Documents < MaxDocuments
        /\ LET assessment ==
                 AssessmentResult(uuid4(Cardinality(DOMAIN assessments)), mods)
           IN  /\ assessments' = insert_one(assessments, assessment)
               /\ response' = Ok("create_assessment",
                                 [id |-> assessment.id, modules |-> assessment.modules])
        /\ UNCHANGED <<db, leads, requests>>

\* POST /assessments/submit up to its second await: the lookup and the scoring
submit_assessment_find_one(assessment_id, submitted) ==
  /\ UNCHANGED <<answers, modules, result>>
  /\ SomeClientIdle
  /\ \/ Unavailable("submit_assessment")
     \/ /\ db # None
        /\ LET assessment == find_one(assessments, assessment_id)
           IN  IF assessment = NoDocument
               THEN /\ response' = NotFound("submit_assessment")
                    /\ UNCHANGED requests
               ELSE /\ requests' =
                         suspend([op      |-> "submit_assessment",
                                  data    |-> [assessment_id |-> assessment_id,
                                               answers       |-> submitted],
                                  update_data |->
                                    update_data(assessment, submitted,
                                      calculate_score_and_risks(submitted,
                                                                assessment.modules))])
                    /\ response' = NoResponse
        /\ UNCHANGED <<db, assessments, leads>>

\* POST /assessments/submit from the update to the response
submit_assessment_update_one ==
  /\ UNCHANGED <<answers, modules, result>>
  /\ \E r \in InFlight("submit_assessment") :
       /\ assessments' = update_one(assessments, r.data.assessment_id, r.update_data)
       /\ response' = Ok("submit_assessment",
                         [assessment_id    |-> r.data.assessment_id,
                          risk_level       |-> r.update_data.risk_level,
                          score_percentage |-> r.update_data.score_percentage,
                          confidence_level |-> r.update_data.confidence_level,
                          top_risks        |-> r.update_data.top_risks,
                          action_plan      |-> r.update_data.action_plan,
                          trigger_flags    |-> r.update_data.trigger_flags])
       /\ requests' = resume(r)
  /\ UNCHANGED <<db, leads>>

\* GET /assessments/{assessment_id}
get_assessment(assessment_id) ==
  /\ UNCHANGED <<answers, modules, result>>
  /\ \/ Unavailable("get_assessment")
     \/ /\ db # None
        /\ LET assessment == find_one(assessments, assessment_id)
           IN  response' = IF assessment = NoDocument
                           THEN NotFound("get_assessment")
                           ELSE Ok("get_assessment", assessment)
        /\ UNCHANGED <<db, assessments, leads, requests>>

\* POST /leads up to its insert: the lead, with the snapshot of the
\* assessment when an id is given and a document is found
create_lead_find_one(assessment_id) ==
  /\ UNCHANGED <<answers, modules, result>>
  /\ SomeClientIdle
  /\ \/ Unavailable("create_lead")
     \/ /\ db # None
        /\ Documents < MaxDocuments
        /\ LET lead == Lead([assessment_id |-> assessment_id])
               assessment == IF assessment_id # None
                             THEN find_one(assessments, assessment_id)
                             ELSE NoDocument
           IN  requests' = suspend([op   |-> "create_lead",
                                    lead |-> lead_snapshot(lead, assessment)])
        /\ response' = NoResponse
        /\ UNCHANGED <<db, assessments, leads>>

\* POST /leads from the insert to the response
create_lead_insert_one ==
  /\ UNCHANGED <<answers, modules, result>>
  /\ \E r \in InFlight("create_lead") :
       /\ leads' = insert_lead(leads, r.lead)
       /\ requests' = resume(r)
  /\ response' = Ok("create_lead", [success |-> TRUE])
  /\ UNCHANGED <<db, assessments>>

\* Answer lists a client saves as partial progress: the first answer of a
\* list it may submit later
ProgressLists == {SubSeq(submitted, 1, 1) : submitted \in SubmitLists}

\* The routes of api_router, each a method and the segments of its path
\* below /api; "{}" stands for a path parameter
Routes ==
  { [method |-> "GET",  path |-> <<>>],
    [method |-> "GET",  path |-> <<"questions", "{}">>],
    [method |-> "GET",  path |-> <<"questions">>],
    [method |-> "POST", path |-> <<"assessments">>],
    [method |-> "POST", path |-> <<"assessments", "submit">>],
    [method |-> "GET",  path |-> <<"assessments", "{}">>],
    [method |-> "POST", path |-> <<"leads">>],
    [method |-> "GET",  path |-> <<"admin", "leads">>],
    [method |-> "GET",  path |-> <<"admin", "leads", "export">>] }

\* A path parameter matches one whole segment, never a "/"
PathMatches(pattern, path) ==
  /\ Len(pattern) = Len(path)
  /\ \A k \in 1..Len(path) : pattern[k] = "{}" \/ pattern[k] = path[k]

\* The answer of the router to a request that no handler takes: 404 when no
\* route has the path, 405 when one has it under another method
Unrouted(op, method, path) ==
  IF \E route \in Routes : PathMatches(route.path, path)
  THEN [op |-> op, status_code |-> 405, detail |-> "Method Not Allowed"]
  ELSE [op |-> op, status_code |-> 404, detail |-> "Not Found"]

Routed(method, path) ==
  \E route \in Routes : route.method = method /\ PathMatches(route.path, path)

\* POST /assessments/{assessment_id}/save-progress with the answers given so
\* far and the index of the current question: no route of api_router takes
\* the request, so no handler runs and nothing is stored
save_progress(assessment_id, saved, current_question_index) ==
  /\ ~Routed("POST", <<"assessments", assessment_id, "save-progress">>)
  /\ response' = Unrouted("save_progress", "POST",
                          <<"assessments", assessment_id, "save-progress">>)
  /\ UNCHANGED <<answers, modules, result>>
  /\ UNCHANGED <<db, assessments, leads, requests>>

\* The assessment routes together with save-progress
NextProgress ==
  \/ \E mods \in ModuleLists : create_assessment(mods)
  \/ \E assessment_id \in AssessmentIds : \E saved \in ProgressLists :
       save_progress(assessment_id, saved, Len(saved))
  \/ \E assessment_id \in AssessmentIds : \E submitted \in SubmitLists :
       submit_assessment_find_one(assessment_id, submitted)
  \/ submit_assessment_update_one

SpecProgress == InitStore /\ [][NextProgress]_vars

NextStore ==
  \/ \E mods \in ModuleLists : create_assessment(mods)
  \/ \E assessment_id \in AssessmentIds : \E submitted \in SubmitLists :
       submit_assessment_find_one(assessment_id, submitted)
  \/ submit_assessment_update_one
  \/ \E assessment_id \in AssessmentIds : get_assessment(assessment_id)
  \/ \E assessment_id \in AssessmentIds \cup {None} :
       create_lead_find_one(assessment_id)
  \/ create_lead_insert_one
  \/ \E module \in CatalogRequests : get_questions(module)

SpecStore == InitStore /\ [][NextStore]_vars

(***************************************************************************)
(* Properties                                                              *)
(***************************************************************************)
\* The result of the last call, when result.returned
R == result.value

\* Sum of the points of the first n submitted answers
RECURSIVE PointsOfFirst(_)
PointsOfFirst(n) == IF n = 0 THEN 0 ELSE PointsOfFirst(n - 1) + answers[n].points

SubmittedTotal == PointsOfFirst(Len(answers))

\* Number of submitted answers whose trigger_flag is true
FlaggedCount == Cardinality({i \in 1..Len(answers) : answers[i].trigger_flag})

\* Badness order of the tiers: green < yellow < red
TierRank(level) == CASE level = "green" -> 0 [] level = "yellow" -> 1 [] level = "red" -> 2

\* The tier the average score per module gives on its own: total/n >= 50 is
\* green, >= 35 yellow, else red (n > 0)
TierOfAverage(total, n) ==
  IF total >= 50 * n THEN "green"
  ELSE IF total >= 35 * n THEN "yellow"
  ELSE "red"

\* C1: for every answer list (duplicate ids, unknown ids and non-catalog
\* points included) and every module list, the returned total_score is the
\* sum of the submitted answers' point values.
C1_TotalIsSumOfPoints ==
  result.returned => R.total_score = SubmittedTotal

\* C1 witness: a scored list with a repeated question id, an unknown question
\* id and a point value that is no catalog option.
C1_Witness ==
  /\ result.returned
  /\ \E i, j \in 1..Len(answers) :
       i # j /\ answers[i].question_id = answers[j].question_id
  /\ \E i \in 1..Len(answers) : answers[i].question_id = UnknownQuestionId
  /\ \E i \in 1..Len(answers) : answers[i].points = 15
  /\ R.total_score = SubmittedTotal

\* C2 as stated: max_possible_score is 60 per module, score_percentage is
\* exactly total_score / max_possible_score x 100 (0 when the maximum is 0),
\* and an empty answer list gives total 0 and percentage 0.
\* (score_percentage is held in tenths of a percent.)
C2_Original ==
  result.returned =>
    /\ R.max_possible_score = 60 * Len(modules)
    /\ R.max_possible_score = 0 => R.score_percentage = 0
    /\ R.max_possible_score > 0 =>
         R.score_percentage * R.max_possible_score = R.total_score * 1000
    /\ answers = <<>> => (R.total_score = 0 /\ R.score_percentage = 0)

\* C2 amended: max_possible_score is 60 per module, score_percentage is
\* total_score / max_possible_score x 100 rounded to one decimal place (so
\* within 0.05 of it), 0 when the maximum is 0, and an empty answer list
\* gives total 0 and percentage 0.
C2_PercentageRounded ==
  result.returned =>
    /\ R.max_possible_score = 60 * Len(modules)
    /\ R.max_possible_score = 0 => R.score_percentage = 0
    /\ R.max_possible_score > 0 =>
         2 * Abs(R.score_percentage * R.max_possible_score - R.total_score * 1000)
           <= R.max_possible_score
    /\ answers = <<>> => (R.total_score = 0 /\ R.score_percentage = 0)

\* C2 witness: two modules (maximum 120) and a total whose percentage has
\* more than one decimal, so that the returned value is a rounded one.
C2_Witness ==
  /\ result.returned
  /\ Len(modules) = 2
  /\ R.max_possible_score = 120
  /\ (R.total_score * 1000) % 120 # 0
  /\ R.total_score > 0

\* C3: with fewer than 3 flagged answers and a non-empty module list the
\* tier is decided by the average score per module alone: green from 50,
\* yellow from 35 to below 50, red below 35.
C3_TierByAverage ==
  (result.returned /\ FlaggedCount < 3 /\ Len(modules) > 0) =>
    R.risk_level = TierOfAverage(SubmittedTotal, Len(modules))

\* C3 witness: two modules, fewer than 3 flags, an average in the yellow
\* band although the total alone is above 50.
C3_Witness ==
  /\ result.returned
  /\ FlaggedCount < 3
  /\ Len(modules) = 2
  /\ SubmittedTotal >= 70 /\ SubmittedTotal < 100
  /\ R.risk_level = "yellow"

\* C4: at least 3 flagged answers never give green, at least 5 always give
\* red, whatever the score; and the override never gives a better tier than
\* the score thresholds alone.
C4_FlagOverride ==
  result.returned =>
    /\ FlaggedCount >= 3 => R.risk_level # "green"
    /\ FlaggedCount >= 5 => R.risk_level = "red"
    /\ Len(modules) > 0 =>
         TierRank(R.risk_level) >=
           TierRank(TierOfAverage(SubmittedTotal, Len(modules)))

\* C4 witness: 5 flagged answers whose average alone would be green, and the
\* returned tier is red.
C4_Witness ==
  /\ result.returned
  /\ FlaggedCount >= 5
  /\ Len(modules) > 0
  /\ TierOfAverage(SubmittedTotal, Len(modules)) = "green"
  /\ R.risk_level = "red"

\* Point values a single answer may be worsened to
WorsePoints == {a.points : a \in AnswerPool} \cup {0, 3}

\* The answer list with the points of answer i replaced by p
WithPoints(i, p) == [answers EXCEPT ![i].points = p]

\* C5: lowering the point value of one answer, everything else (other
\* answers, flags, modules) unchanged, never gives a better tier.
C5_TierMonotonic ==
  result.returned =>
    \A i \in 1..Len(answers) : \A p \in WorsePoints :
      p < answers[i].points =>
        TierRank(risk_level(WithPoints(i, p), modules)) >= TierRank(R.risk_level)

\* C5 witness: a scored green list in which worsening one answer makes the
\* tier strictly worse.
C5_Witness ==
  /\ result.returned
  /\ R.risk_level = "green"
  /\ \E i \in 1..Len(answers) : \E p \in WorsePoints :
       /\ p < answers[i].points
       /\ risk_level(WithPoints(i, p), modules) = "red"

\* C6: top_risks never has more than 7 entries, however long the answer list.
C6_TopRisksAtMost7 ==
  result.returned => Len(R.top_risks) <= 7

\* C6 witness: more than 7 submitted answers that each resolve to a risk
\* (at most 2 points, mapped question id), and exactly 7 entries returned.
C6_Witness ==
  /\ result.returned
  /\ Cardinality({i \in 1..Len(answers) : RiskEntry(answers[i]) # <<>>}) > 7
  /\ Len(R.top_risks) = 7

\* C7: the action plan (risk items plus the trailing review call) never has
\* more than 7 entries.
C7_ActionPlanAtMost7 ==
  result.returned => Len(R.action_plan) <= 7

\* C8: the priorities of the action plan, in list order, are 1, 2, ..., n,
\* the trailing review call included.
C8_PrioritiesContiguous ==
  result.returned =>
    \A i \in 1..Len(R.action_plan) : R.action_plan[i].priority = i

\* C8 witness: a plan with an Address item, a Review item cut off by the
\* priority limit, and the trailing review call.
C8_Witness ==
  /\ result.returned
  /\ Len(R.action_plan) >= 3
  /\ R.action_plan[1].urgency = "high"
  /\ \E i \in 1..Len(R.action_plan) :
       R.action_plan[i].action = "Review: Unknown Cost Exposure"
  /\ R.action_plan[Len(R.action_plan)].action = "Schedule a CLBH Review Call"
  /\ Cardinality({i \in 1..Len(R.top_risks) : R.top_risks[i].severity = "medium"})
       > Cardinality({i \in 1..Len(R.action_plan) : R.action_plan[i].urgency = "medium"})

Clamp(lo, hi, x) == IF x < lo THEN lo ELSE IF x > hi THEN hi ELSE x

\* C10: confidence_level = clamp(10, 100, base - penalty), base the integer
\* part of the unrounded score percentage (the float the code computes),
\* penalty 5 per flagged answer; so it always lies in 10..100, also for
\* negative percentages and percentages above 100.
C10_Confidence ==
  result.returned =>
    LET base    == int(score_percentage(SubmittedTotal, 60 * Len(modules)))
        penalty == 5 * FlaggedCount
    IN  /\ R.confidence_level = Clamp(10, 100, base - penalty)
        /\ R.confidence_level \in 10..100

\* C10 witness: flagged answers and a percentage whose confidence is not
\* clamped, so that base - penalty itself is returned.
C10_Witness ==
  /\ result.returned
  /\ FlaggedCount >= 2
  /\ R.confidence_level > 10 /\ R.confidence_level < 100
  /\ R.confidence_level * 10 + 50 * FlaggedCount < R.score_percentage

\* The submitted answers whose trigger_flag is true, in submission order
FlaggedAnswers == SelectSeq(answers, LAMBDA a : a.trigger_flag)

\* C11: trigger_flags is the sequence of question ids of the flagged
\* answers in submission order, a question id flagged twice appearing
\* twice, so its length is the number of flagged answers.
C11_TriggerFlagsInOrder ==
  result.returned =>
    /\ Len(R.trigger_flags) = FlaggedCount
    /\ Len(R.trigger_flags) = Len(FlaggedAnswers)
    /\ \A k \in 1..Len(FlaggedAnswers) :
         R.trigger_flags[k] = FlaggedAnswers[k].question_id

\* C11 witness: the same question id submitted twice with the flag set,
\* with a flagged answer to another question in between.
C11_Witness ==
  /\ result.returned
  /\ Len(answers) >= 3
  /\ answers[1].trigger_flag /\ answers[2].trigger_flag /\ answers[3].trigger_flag
  /\ answers[1].question_id = answers[3].question_id
  /\ answers[1].question_id # answers[2].question_id
  /\ Len(R.trigger_flags) = 3

\* The answer is an option of the catalog: its question is in the catalog and
\* its value and points are those of one of the question's options
IsCatalogOption(a) ==
  \E m \in Modules : \E i \in 1..Len(QUESTIONS[m]) :
    /\ QUESTIONS[m][i].id = a.question_id
    /\ \E k \in 1..Len(QUESTIONS[m][i].options) :
         /\ QUESTIONS[m][i].options[k].value = a.answer_value
         /\ QUESTIONS[m][i].options[k].points = a.points

\* The question id is known to the resolver
IsResolved(a) == a.question_id \in DOMAIN mappings

\* The top-risk entry the risk catalog holds for the question of answer a
\* (module taken from the catalog the question belongs to)
CatalogRiskOf(a) ==
  LET m == CHOOSE mm \in Modules : a.question_id \in CatalogIds(mm)
  IN  RISK_DESCRIPTIONS[m][mappings[a.question_id]]

\* Every submitted answer counts in total_score and, if flagged, in
\* trigger_flags, and every top_risks entry belongs to an answer satisfying ok
\* with at most 2 points, which are at least as many as the entries
ContributesButNoRisk(ok(_)) ==
  /\ result.returned
  /\ R.total_score = SubmittedTotal
  /\ Len(R.trigger_flags) = FlaggedCount
  /\ \A i \in 1..Len(answers) :
       answers[i].trigger_flag =>
         \E k \in 1..Len(R.trigger_flags) : R.trigger_flags[k] = answers[i].question_id
  /\ Len(R.top_risks) <=
       Cardinality({i \in 1..Len(answers) : ok(answers[i]) /\ answers[i].points <= 2})
  /\ \A k \in 1..Len(R.top_risks) :
       \E i \in 1..Len(answers) :
         /\ ok(answers[i])
         /\ answers[i].points <= 2
         /\ R.top_risks[k].title = CatalogRiskOf(answers[i]).title

\* C12 as stated: every answer list is scored, and an answer with an unknown
\* question id, or with a value or points that are no option of the catalog,
\* counts in total_score and trigger_flags but yields no top_risks entry.
C12_Original ==
  result.returned =>
    ContributesButNoRisk(LAMBDA a : IsResolved(a) /\ IsCatalogOption(a))

\* C12 amended: every answer list is scored; an answer with an unknown
\* question id, or with a value or points that are no option of the catalog,
\* counts in total_score and, if flagged, in trigger_flags; an answer whose
\* question id is unknown to the resolver yields no top_risks entry.
C12_UnknownIdNoRisk ==
  result.returned => ContributesButNoRisk(IsResolved)

\* C12 witness: a scored list with a flagged 1-point answer to an unknown
\* question, a flagged non-catalog answer to a catalog question, and one
\* top risk, from the only low answer whose question the resolver knows.
C12_Witness ==
  /\ result.returned
  /\ \E i \in 1..Len(answers) :
       /\ answers[i].question_id = UnknownQuestionId
       /\ answers[i].points <= 2
       /\ answers[i].trigger_flag
  /\ \E i \in 1..Len(answers) :
       /\ IsResolved(answers[i])
       /\ answers[i].trigger_flag
       /\ ~IsCatalogOption(answers[i])
  /\ Cardinality({i \in 1..Len(answers) :
                    IsResolved(answers[i]) /\ answers[i].points <= 2}) = 1
  /\ Len(R.top_risks) = 1

\* C13: no two entries of top_risks carry the same risk (same module and
\* same title).
C13_TopRisksDeduplicated ==
  result.returned =>
    \A i, j \in 1..Len(R.top_risks) :
      (R.top_risks[i].module = R.top_risks[j].module
         /\ R.top_risks[i].title = R.top_risks[j].title) => i = j

\* The "Address: ..." items of the action plan
AddressItems ==
  {i \in 1..Len(R.action_plan) :
     \E k \in 1..Len(R.top_risks) :
       R.action_plan[i].action = "Address: " \o R.top_risks[k].title}

\* C14: each high-severity top risk yields one "Address" item, the Address
\* items come before all other items, and there are never more than 5.
C14_AddressItemsCapped ==
  result.returned =>
    /\ Cardinality(AddressItems) =
         Cardinality({k \in 1..Len(R.top_risks) : R.top_risks[k].severity = "high"})
    /\ AddressItems = 1..Cardinality(AddressItems)
    /\ Cardinality(AddressItems) <= 5

\* The review-call items of the action plan
ReviewCallItems ==
  {i \in 1..Len(R.action_plan) :
     R.action_plan[i].action = "Schedule a CLBH Review Call"}

\* Sum of the submitted points of the answers attributed to module m
RECURSIVE ModulePointsOfFirst(_, _)
ModulePointsOfFirst(m, n) ==
  IF n = 0 THEN 0
  ELSE ModulePointsOfFirst(m, n - 1) +
       (IF module_of(answers[n].question_id) = m THEN answers[n].points ELSE 0)

\* Some module of the assessment has an own score in the worst tier (< 35)
AnyModuleWorst ==
  \E k \in 1..Len(modules) : ModulePointsOfFirst(modules[k], Len(answers)) < 35

\* The plan has exactly one review call, as last item, with urgency high for
\* red and medium otherwise, when `due`; and none otherwise
ReviewCallIff(due) ==
  IF due
  THEN /\ ReviewCallItems = {Len(R.action_plan)}
       /\ Len(R.action_plan) >= 1
       /\ R.action_plan[Len(R.action_plan)].urgency =
            (IF R.risk_level = "red" THEN "high" ELSE "medium")
  ELSE ReviewCallItems = {}

\* C15: the plan has exactly one review call, as its last item, whenever
\* the overall tier is yellow or red or some module's own score is in the
\* worst tier, and none otherwise; its urgency is high for red and medium
\* otherwise.
C15_ReviewCallWhenDue ==
  result.returned =>
    ReviewCallIff(R.risk_level \in {"yellow", "red"} \/ AnyModuleWorst)

\* The last step answered a submit_assessment for assessment id with 200
SubmitSucceeded(id) ==
  /\ response.op = "submit_assessment"
  /\ response.status_code = 200
  /\ response.body.assessment_id = id

\* C16: an assessment is created pending (completed false, no answers); its
\* completed flag turns true only in a step that answers a successful
\* submit_assessment for its id, every such step leaves it true, and it
\* never turns false again.
C16_CompletedOnlyBySubmit ==
  [][\A id \in DOMAIN assessments' :
       /\ id \notin DOMAIN assessments =>
            /\ ~assessments'[id].completed
            /\ assessments'[id].answers = <<>>
       /\ id \in DOMAIN assessments =>
            /\ assessments[id].completed => assessments'[id].completed
            /\ (~assessments[id].completed /\ assessments'[id].completed)
                 => SubmitSucceeded(id)'
            /\ SubmitSucceeded(id)' => assessments'[id].completed]_vars

\* C16 witness: a submit has just completed one assessment while another
\* one is still pending with no answers.
C16_Witness ==
  \E id, other \in DOMAIN assessments :
    /\ SubmitSucceeded(id)
    /\ assessments[id].completed
    /\ ~assessments[other].completed
    /\ assessments[other].answers = <<>>

\* The fields of a stored assessment that hold the results of a scoring
ResultFields ==
  {"total_score", "max_possible_score", "score_percentage", "risk_level",
   "trigger_flags", "top_risks", "action_plan", "confidence_level"}

\* C17: a successful submit_assessment for an already completed assessment
\* stores exactly the submitted list as answers and, in every result field,
\* the value computed from that list; id and modules stay as they were.
C17_ResubmissionOverwrites ==
  [][\A id \in DOMAIN assessments :
       (assessments[id].completed /\ SubmitSucceeded(id)') =>
         \E r \in InFlight("submit_assessment") :
           /\ requests' = resume(r)
           /\ r.data.assessment_id = id
           /\ assessments'[id].answers = r.data.answers
           /\ \A f \in ResultFields :
                assessments'[id][f] =
                  calculate_score_and_risks(r.data.answers, assessments[id].modules)[f]
           /\ assessments'[id].id = assessments[id].id
           /\ assessments'[id].modules = assessments[id].modules
           /\ assessments'[id].completed]_vars

\* C17 witness: a submit has just stored the second list for an assessment
\* of which a lead still holds the red snapshot of the first list.
C17_Witness ==
  \E id \in DOMAIN assessments :
    /\ SubmitSucceeded(id)
    /\ assessments[id].answers = <<MinimalAcq1, BigUnknown>>
    /\ assessments[id].risk_level = "yellow"
    /\ \E l \in BagToSet(leads) :
         l.assessment_id = id /\ l.risk_level = "red"

\* The create_lead handlers that the step has suspended
NewLeadRequests ==
  {r \in BagToSet(requests') :
     /\ r.op = "create_lead"
     /\ CopiesIn(r, requests') > CopiesIn(r, requests)}

\* The leads that the step has inserted
NewLeads == {l \in BagToSet(leads') : CopiesIn(l, leads') > CopiesIn(l, leads)}

\* The lead carries no snapshot
Unset(l) == l.score = None /\ l.risk_level = None /\ l.top_risks = <<>>

\* C18: a create_lead that finds a completed assessment under the id it
\* references takes its risk_level, its score_percentage (as text with "%")
\* and the titles of its top risks; one that references an id under which
\* no assessment is stored leaves the three unset; either way the lead is
\* inserted as built and the request answered with success.
C18_LeadSnapshot ==
  [][/\ \A r \in NewLeadRequests :
          IF r.lead.assessment_id \in DOMAIN assessments
          THEN assessments[r.lead.assessment_id].completed =>
                 LET a == assessments[r.lead.assessment_id]
                 IN  /\ r.lead.risk_level = a.risk_level
                     /\ r.lead.score = format_score(a)
                     /\ Len(r.lead.top_risks) = Len(a.top_risks)
                     /\ \A k \in 1..Len(a.top_risks) :
                          r.lead.top_risks[k] = a.top_risks[k].title
          ELSE Unset(r.lead)
     /\ \A l \in NewLeads :
          /\ \E r \in InFlight("create_lead") :
               r.lead = l /\ requests' = resume(r)
          /\ response'.op = "create_lead"
          /\ response'.status_code = 200
          /\ response'.body.success]_vars

\* C18 witness: the leads hold the snapshot of a completed lease assessment
\* (red, 5.0%, two top risks) and an unset lead for an id never issued.
C18_Witness ==
  /\ \E l \in BagToSet(leads) :
       /\ l.assessment_id \in DOMAIN assessments
       /\ assessments[l.assessment_id].completed
       /\ l.risk_level = "red"
       /\ l.score = "5.0%"
       /\ Len(l.top_risks) = 2
  /\ \E l \in BagToSet(leads) :
       l.assessment_id = UnknownAssessmentId /\ Unset(l)

\* C19: a lead carries a snapshot only if the assessment it references was
\* stored and completed when the lead was created: every stored lead that
\* references a missing or a still pending assessment has score and
\* risk_level unset and no top risks.
C19_NoSnapshotOfPending ==
  \A l \in BagToSet(leads) :
    ~(/\ l.assessment_id \in DOMAIN assessments
      /\ assessments[l.assessment_id].completed)
      => Unset(l)

\* C20: no step changes a lead once it is inserted: every lead stays in the
\* collection with the fields it was inserted with.
C20_LeadSnapshotFrozen ==
  [][\A l \in BagToSet(leads) : CopiesIn(l, leads') >= CopiesIn(l, leads)]_vars

\* C20 witness: a lead still holds the red snapshot of an assessment that
\* was re-submitted to yellow afterwards, next to a lead created since.
C20_Witness ==
  /\ BagCardinality(leads) >= 2
  /\ \E l \in BagToSet(leads) :
       /\ l.assessment_id \in DOMAIN assessments
       /\ l.risk_level = "red"
       /\ l.score = "5.0%"
       /\ assessments[l.assessment_id].risk_level = "yellow"
       /\ assessments[l.assessment_id].completed

\* The step resumes the suspended submit_assessment r
Resumed(r) ==
  /\ r \in InFlight("submit_assessment")
  /\ requests' = resume(r)

\* C21: of two submit_assessment calls for the same stored assessment that
\* are in flight together, each one is answered 200 with the result scored
\* from its own answers, whatever the order of their lookups and updates,
\* and its update leaves its own answers and result in the store, so the
\* store ends with those of the update applied last.
C21_LastWriteWins ==
  [][\A r \in BagToSet(requests) :
       Resumed(r) =>
         LET id   == r.data.assessment_id
             own  == calculate_score_and_risks(r.data.answers, assessments[id].modules)
         IN  /\ id \in DOMAIN assessments
             /\ SubmitSucceeded(id)'
             /\ response'.body.risk_level = own.risk_level
             /\ response'.body.score_percentage = own.score_percentage
             /\ response'.body.confidence_level = own.confidence_level
             /\ response'.body.top_risks = own.top_risks
             /\ response'.body.action_plan = own.action_plan
             /\ response'.body.trigger_flags = own.trigger_flags
             /\ assessments'[id].answers = r.data.answers
             /\ \A f \in ResultFields : assessments'[id][f] = own[f]]_vars

\* C21 witness: one of two submits that were in flight together for the same
\* assessment has been answered and its list stored, while the other, with a
\* different list, is still suspended before its update.
C21_Witness ==
  \E id \in DOMAIN assessments :
    /\ SubmitSucceeded(id)
    /\ assessments[id].answers = <<RedLease1, YellowLease2>>
    /\ response.body.risk_level = "red"
    /\ \E r \in InFlight("submit_assessment") :
         /\ r.data.assessment_id = id
         /\ r.data.answers = <<MinimalAcq1, BigUnknown>>

\* C22: a stored assessment stays stored, the id create_assessment returns
\* is stored, and get_assessment finds every stored id; get_assessment and
\* submit_assessment for an id under which nothing is stored answer 404 and
\* leave assessments and leads as they are; get_questions for a module that
\* is not in the catalog answers 404.
C22_NotFound ==
  [][/\ DOMAIN assessments \subseteq DOMAIN assessments'
     /\ (response'.op = "create_assessment" /\ response'.status_code = 200)
          => response'.body.id \in DOMAIN assessments'
     /\ db # None =>
          \A id \in AssessmentIds :
            /\ get_assessment(id) =>
                 IF id \in DOMAIN assessments
                 THEN /\ response'.status_code = 200
                      /\ response'.body = assessments[id]
                 ELSE /\ response' = NotFound("get_assessment")
                      /\ UNCHANGED <<assessments, leads>>
            /\ \A submitted \in SubmitLists :
                 (id \notin DOMAIN assessments
                    /\ submit_assessment_find_one(id, submitted))
                   => /\ response' = NotFound("submit_assessment")
                      /\ UNCHANGED <<assessments, leads, requests>>
     /\ \A module \in CatalogRequests \ Modules :
          get_questions(module) => response' = ModuleNotFound(module)]_vars

\* C22 witness: a lookup of an id never issued has just been answered 404
\* while a completed assessment and a lead are stored.
C22_Witness ==
  /\ response.op = "get_assessment"
  /\ response.status_code = 404
  /\ \E id \in DOMAIN assessments : assessments[id].completed
  /\ leads # EmptyBag

\* The operations that need the database
StoreOps == {"create_assessment", "get_assessment", "submit_assessment", "create_lead"}

\* C23: while the database handle is None, create_assessment,
\* get_assessment, submit_assessment and create_lead are each answered 503,
\* whatever id they are given, and nothing is stored, changed or suspended;
\* get_questions still answers 200 with the questions of the module.
C23_Unavailable ==
  [][db = None =>
       /\ UNCHANGED <<db, assessments, leads, requests>>
       /\ response'.op \in StoreOps => response'.status_code = 503
       /\ \A mods \in ModuleLists :
            create_assessment(mods) => response'.op = "create_assessment"
       /\ \A id \in AssessmentIds :
            /\ get_assessment(id) => response'.op = "get_assessment"
            /\ create_lead_find_one(id) => response'.op = "create_lead"
            /\ \A submitted \in SubmitLists :
                 submit_assessment_find_one(id, submitted)
                   => response'.op = "submit_assessment"
       /\ \A module \in CatalogRequests \cap Modules :
            get_questions(module) =>
              /\ response'.status_code = 200
              /\ response'.body.questions = QUESTIONS[module]]_vars

\* C23 witness: without a database handle a create_lead has just been
\* answered 503 and nothing is stored.
C23_Witness ==
  /\ db = None
  /\ response = ServiceUnavailable("create_lead")
  /\ DOMAIN assessments = {}
  /\ leads = EmptyBag

\* C24: in every state of the store, every answer stored in an assessment
\* has a question id that is in the catalog of one of the modules the
\* assessment was created with.
C24_AnswersBelongToModules ==
  \A id \in DOMAIN assessments :
    \A i \in 1..Len(assessments[id].answers) :
      \E k \in 1..Len(assessments[id].modules) :
        assessments[id].answers[i].question_id
          \in CatalogIds(assessments[id].modules[k])

\* C25: when every question of the chosen modules is answered with its best
\* option, total_score equals max_possible_score (3 points for each of the
\* 20 questions of each module), score_percentage is 100.0, the tier is
\* green, nothing is flagged, and top_risks and action_plan are empty.
C25_AllBest ==
  (result.returned /\ Len(answers) = Len(QuestionsOf(modules))) =>
    /\ R.total_score = R.max_possible_score
    /\ R.total_score = 3 * Len(answers)
    /\ R.score_percentage = 1000
    /\ R.risk_level = "green"
    /\ \A i \in 1..Len(answers) : ~answers[i].trigger_flag
    /\ R.trigger_flags = <<>>
    /\ R.top_risks = <<>>
    /\ R.action_plan = <<>>

\* C25 witness: all 40 questions of the lease and ownership modules answered
\* with the best option and scored.
C25_Witness ==
  /\ result.returned
  /\ modules = <<"lease", "ownership">>
  /\ Len(answers) = Len(QuestionsOf(modules))
  /\ R.total_score = 120

\* C26: a save-progress request for a stored pending assessment, carrying
\* the answers given so far and the index of the current question, is
\* answered 200 and leaves the assessment pending; a later submit_assessment
\* for that id is accepted and answered 200, and stores its own answers and
\* completes the assessment.
C26_SaveProgressThenSubmit ==
  [][db # None =>
       \A id \in DOMAIN assessments :
         /\ \A saved \in ProgressLists :
              (~assessments[id].completed /\ save_progress(id, saved, Len(saved)))
                => /\ response'.op = "save_progress"
                   /\ response'.status_code = 200
                   /\ ~assessments'[id].completed
         /\ \A submitted \in SubmitLists :
              submit_assessment_find_one(id, submitted)
                => response' = NoResponse /\ requests' # requests
         /\ \A r \in BagToSet(requests) :
              (Resumed(r) /\ r.data.assessment_id = id)
                => /\ SubmitSucceeded(id)'
                   /\ assessments'[id].completed
                   /\ assessments'[id].answers = r.data.answers]_vars

\* C26, the part that holds: a save-progress request changes no stored
\* assessment, and a submit_assessment for a stored id is accepted whatever
\* requests came before it, stores its own answers and completes the
\* assessment.
C26_SubmitStillSucceeds ==
  [][db # None =>
       \A id \in DOMAIN assessments :
         /\ \A saved \in ProgressLists :
              save_progress(id, saved, Len(saved))
                => /\ response'.status_code = 404
                   /\ assessments' = assessments
         /\ \A submitted \in SubmitLists :
              submit_assessment_find_one(id, submitted)
                => response' = NoResponse /\ requests' # requests
         /\ \A r \in BagToSet(requests) :
              (Resumed(r) /\ r.data.assessment_id = id)
                => /\ SubmitSucceeded(id)'
                   /\ assessments'[id].completed
                   /\ assessments'[id].answers = r.data.answers]_vars

\* C26 failing state: a save-progress request for a stored pending
\* assessment has been answered 404.
C26_Refused ==
  /\ response.op = "save_progress"
  /\ response.status_code = 404
  /\ \E id \in DOMAIN assessments : ~assessments[id].completed

\* The answers of the call that the top-risks loop turns into an entry
Produces(answer) == RiskEntry(answer) # <<>>

\* C27: top_risks is ranked by severity for every answer list: every "high"
\* entry precedes every "medium" entry, an answer with fewer points never
\* gets a lower severity than an answer with more points, and only answers
\* with at most 2 points produce an entry.
C27_SeverityRanked ==
  result.returned =>
    /\ \A i, j \in 1..Len(R.top_risks) :
         (R.top_risks[i].severity = "medium" /\ R.top_risks[j].severity = "high")
           => j < i
    /\ \A i, j \in 1..Len(answers) :
         (Produces(answers[i]) /\ Produces(answers[j])
            /\ answers[i].points < answers[j].points)
           => ~(RiskEntry(answers[i])[1].severity = "medium"
                  /\ RiskEntry(answers[j])[1].severity = "high")
    /\ Len(R.top_risks)
         <= Cardinality({i \in 1..Len(answers) : answers[i].points <= 2})

\* C27 failing state: a "medium" entry stands before a "high" entry.
C27_MediumBeforeHigh ==
  /\ result.returned
  /\ Len(R.top_risks) = 2
  /\ R.top_risks[1].severity = "medium"
  /\ R.top_risks[2].severity = "high"

\* A stored assessment as create_assessment leaves it
Pending(d) ==
  /\ ~d.completed
  /\ d.answers = <<>>
  /\ d.total_score = 0
  /\ d.max_possible_score = 0
  /\ d.score_percentage = 0
  /\ d.risk_level = "green"
  /\ d.confidence_level = 50
  /\ d.trigger_flags = <<>>
  /\ d.top_risks = <<>>
  /\ d.action_plan = <<>>

\* A stored assessment whose result fields are those of scoring its answers
Consistent(d) ==
  /\ d.completed
  /\ \A f \in ResultFields :
       d[f] = calculate_score_and_risks(d.answers, d.modules)[f]

\* C28: in every reachable state each stored assessment is either pending
\* with empty answers and default result fields, or completed with every
\* result field equal to the scoring of its stored answers against its
\* stored modules; answers and result never come from two submissions.
C28_StoredResultMatchesAnswers ==
  \A id \in DOMAIN assessments :
    Pending(assessments[id]) \/ Consistent(assessments[id])

\* C28 witness: an assessment completed by one submission while another
\* submission for the same id, with other answers, is between its lookup and
\* its update.
C28_Witness ==
  \E id \in DOMAIN assessments :
    /\ Consistent(assessments[id])
    /\ \E r \in InFlight("submit_assessment") :
         /\ r.data.assessment_id = id
         /\ r.data.answers # assessments[id].answers

\* The catalog module that has the question
CatalogModule(question_id) ==
  CHOOSE m \in Modules : question_id \in CatalogIds(m)

\* The number of answers that sorted() places before answers[i]: those with
\* fewer points, and those with the same points given earlier
Rank(i) ==
  Cardinality({j \in 1..Len(answers) :
                 \/ answers[j].points < answers[i].points
                 \/ answers[j].points = answers[i].points /\ j < i})

\* C29: every flagging option of a catalog question has 1 point and every
\* 1-point option flags; the question of a flagging option resolves through
\* get_risk_key to a key of RISK_DESCRIPTIONS for the module of its id
\* prefix, and a flagged catalog answer among the 7 answers with the fewest
\* points has its "high" entry in top_risks.
C29_ResolverCoversFlags ==
  \A i \in 1..Len(answers) :
    LET a == answers[i]
        m == CatalogModule(a.question_id)
    IN  /\ a.trigger_flag <=> a.points = 1
        /\ a.trigger_flag =>
             /\ module_of(a.question_id) = m
             /\ get_risk_key(a.question_id) # None
             /\ get_risk_key(a.question_id) \in DOMAIN RISK_DESCRIPTIONS[m]
             /\ (result.returned /\ Rank(i) < 7) =>
                  \E k \in 1..Len(R.top_risks) :
                    /\ R.top_risks[k].module = m
                    /\ R.top_risks[k].severity = "high"
                    /\ R.top_risks[k].title =
                         RISK_DESCRIPTIONS[m][get_risk_key(a.question_id)].title

\* C29 witness: a flagged ownership answer given after seven best-tier
\* answers has been scored and stands first in top_risks.
C29_Witness ==
  /\ result.returned
  /\ Len(answers) = 8
  /\ answers[8].trigger_flag
  /\ CatalogModule(answers[8].question_id) = "ownership"
  /\ Rank(8) = 0
  /\ Len(R.top_risks) = 1
  /\ R.top_risks[1].module = "ownership"

\* The versions a stored assessment can have had: the pending one, and the
\* one each submitted list leaves
StoredVersions(id) ==
  {[completed |-> FALSE, max_possible_score |-> 0, score_percentage |-> 0,
    risk_level |-> "green", top_risks |-> <<>>]}
    \cup
  {LET results == calculate_score_and_risks(submitted, assessments[id].modules)
   IN  [completed          |-> TRUE,
        max_possible_score |-> results.max_possible_score,
        score_percentage   |-> results.score_percentage,
        risk_level         |-> results.risk_level,
        top_risks          |-> results.top_risks] : submitted \in SubmitLists}

\* The leads inserted and the leads of create_lead calls still before their
\* insert
AllLeads ==
  BagToSet(leads) \cup {r.lead : r \in InFlight("create_lead")}

\* C30: under every interleaving of create_lead with submit_assessment calls
\* for the assessment it references, the score, the risk_level and the
\* top-risk titles of the lead are those of one and the same stored version
\* of the assessment, the one before an update or the one after it (all
\* three unset when the lead was built before the assessment was stored).
C30_LeadFromOneVersion ==
  \A l \in AllLeads :
    l.assessment_id \in DOMAIN assessments =>
      \/ Unset(l)
      \/ \E v \in StoredVersions(l.assessment_id) :
           /\ l.score = format_score(v)
           /\ l.risk_level = v.risk_level
           /\ Len(l.top_risks) = Len(v.top_risks)
           /\ \A k \in 1..Len(v.top_risks) : l.top_risks[k] = v.top_risks[k].title

\* C30 witness: a create_lead that read the red version is still before its
\* insert when a re-submission has just updated the assessment to yellow.
C30_Witness ==
  \E r \in InFlight("create_lead") :
    /\ r.lead.assessment_id \in DOMAIN assessments
    /\ r.lead.risk_level = "red"
    /\ Len(r.lead.top_risks) = 2
    /\ assessments[r.lead.assessment_id].risk_level = "yellow"
    /\ SubmitSucceeded(r.lead.assessment_id)

====
